---- MODULE Spec2Model ----
(***************************************************************************)
(* A model of the resume-analyzer scoring engine (src/scoring.py).         *)
(*                                                                         *)
(* Python strings are TLA+ strings; a character is a string of length 1.   *)
(* Python floats are exact rationals <<n, d>> with d > 0, kept in lowest   *)
(* terms, so that equal values are equal states.                           *)
(***************************************************************************)
EXTENDS Integers, Sequences, FiniteSets, TLC

VARIABLES
    weights,            \* ResumeScorer.weights (the scorer's configuration)
    hash_seed,          \* the process's string-hash seed: fixes list(set(..)) order
    pc,                 \* position inside calculate_match_score
    parsed_resume,      \* argument of the call in progress
    job_description,    \* argument of the call in progress
    arg_min_experience, \* argument min_experience (None or a number)
    arg_education,      \* argument education_requirement (None or a string)
    job_requirements,   \* local of calculate_match_score
    skills_result,      \* local: result of score_skills_direct_match
    experience_result,  \* local: result of _score_experience
    education_result,   \* local: result of _score_education
    keywords_result,    \* local: result of _score_keywords
    summary_result,     \* local: result of _score_summary
    exc,                \* the exception in flight inside the try block
    result,             \* the MatchResult handed back to the caller
    escaped,            \* TRUE when an exception left calculate_match_score
    skill1, skill2,     \* arguments of a calculate_skill_similarity call
    sim_pc,             \* position of the calculate_skill_similarity call
    similarity,         \* its return value
    suspended,          \* the frame of a second thread's call, not running now
    unit_pc,            \* position of a direct call of one scoring function
    unit_fn,            \* the function called directly
    unit_input,         \* its arguments
    unit_output,        \* its return value or exception
    foreign_keys,       \* DataStore._conn: whether SQLite enforces foreign keys
    resumes,            \* rows of the resumes table, by id
    job_descriptions,   \* rows of the job_descriptions table, by id
    analyses,           \* rows of the analyses table, by id
    variant,            \* which _run_full_analysis runs: "main" or "ui_app"
    run_pc,             \* position inside _run_full_analysis
    stopwords_loadable, \* whether NLTK's stop-word corpus can be loaded
    resume_path,        \* the temporary resume file: parsable or not, its content
    tmp_file,           \* "present" or "deleted"
    job_desc,           \* argument of _run_full_analysis
    run_parsed_resume,  \* local parsed_resume
    run_match_result,   \* local match_result
    dashboard,          \* local dashboard
    reports,            \* local reports
    run_exc,            \* the exception raised by a step
    run_log             \* the steps started so far, then "unlink"

vars == << weights, hash_seed, pc, parsed_resume, job_description,
           arg_min_experience, arg_education, job_requirements,
           skills_result, experience_result, education_result,
           keywords_result, summary_result, exc, result, escaped,
           skill1, skill2, sim_pc, similarity,
           suspended, unit_pc, unit_fn, unit_input, unit_output,
           foreign_keys, resumes, job_descriptions, analyses,
           variant, run_pc, stopwords_loadable, resume_path, tmp_file, job_desc,
           run_parsed_resume, run_match_result, dashboard, reports, run_exc,
           run_log >>

score_vars == << weights, hash_seed, pc, parsed_resume, job_description,
                 arg_min_experience, arg_education, job_requirements,
                 skills_result, experience_result, education_result,
                 keywords_result, summary_result, exc, result, escaped >>

sim_vars == << skill1, skill2, sim_pc, similarity >>

unit_vars == << unit_pc, unit_fn, unit_input, unit_output >>

store_vars == << foreign_keys, resumes, job_descriptions, analyses >>

run_vars == << variant, run_pc, stopwords_loadable, resume_path, tmp_file,
              job_desc, run_parsed_resume, run_match_result, dashboard, reports,
              run_exc, run_log >>

\* the state outside the scorer
rest_vars == << store_vars, run_vars >>

\* what a step of one thread's calculate_match_score call leaves alone
other_vars == << sim_vars, suspended, unit_vars, rest_vars >>

----------------------------------------------------------------------------
(* Exact rational arithmetic for the float computations.                   *)

RECURSIVE Gcd(_, _)
Gcd(a, b) == IF b = 0 THEN a ELSE Gcd(b, a % b)

Abs(n) == IF n < 0 THEN -n ELSE n

Rat(n, d) ==
    LET g == Gcd(Abs(n), Abs(d))
        s == IF d < 0 THEN -1 ELSE 1
    IN  << (s * n) \div g, (s * d) \div g >>

Num(n) == << n, 1 >>
RAdd(x, y) == Rat(x[1] * y[2] + y[1] * x[2], x[2] * y[2])
RSub(x, y) == Rat(x[1] * y[2] - y[1] * x[2], x[2] * y[2])
RMul(x, y) == Rat(x[1] * y[1], x[2] * y[2])
RLt(x, y) == x[1] * y[2] < y[1] * x[2]
RLe(x, y) == x[1] * y[2] <= y[1] * x[2]
RGt(x, y) == RLt(y, x)
RGe(x, y) == RLe(y, x)
RMin(x, y) == IF RLt(y, x) THEN y ELSE x
RMax(x, y) == IF RGt(y, x) THEN y ELSE x

----------------------------------------------------------------------------
(* Python str operations.                                                  *)

Char(s, i) == SubSeq(s, i, i)

UpperLetters == "ABCDEFGHIJKLMNOPQRSTUVWXYZ"
LowerLetters == "abcdefghijklmnopqrstuvwxyz"
Digits == "0123456789"

CharsOf(s) == { Char(s, i) : i \in 1..Len(s) }

UpperSet == CharsOf(UpperLetters)
LetterSet == CharsOf(UpperLetters) \cup CharsOf(LowerLetters)
DigitSet == CharsOf(Digits)

\* the lower-case letter of each upper-case letter
LowerMap ==
    [c \in UpperSet |->
        Char(LowerLetters, CHOOSE i \in 1..Len(UpperLetters) : Char(UpperLetters, i) = c)]

\* str.lower() on one character
LowerChar(c) == IF c \in UpperSet THEN LowerMap[c] ELSE c

\* str.lower()
RECURSIVE Lower(_)
Lower(s) == IF s = "" THEN "" ELSE LowerChar(Head(s)) \o Lower(Tail(s))

IsSpace(c) == c \in {" ", "\n", "\t"}
IsLetter(c) == c \in LetterSet
IsDigitChar(c) == c \in DigitSet

\* str.isalpha() and str.isdigit(): false on the empty string
IsAlpha(s) == s # "" /\ \A i \in 1..Len(s) : IsLetter(Char(s, i))
IsDigit(s) == s # "" /\ \A i \in 1..Len(s) : IsDigitChar(Char(s, i))

\* a in b  (substring test)
IsSubstr(a, b) ==
    \E i \in 0..(Len(b) - Len(a)) : SubSeq(b, i + 1, i + Len(a)) = a

\* str.strip()
RECURSIVE LStrip(_)
LStrip(s) == IF s # "" /\ IsSpace(Head(s)) THEN LStrip(Tail(s)) ELSE s
RECURSIVE RStrip(_)
RStrip(s) ==
    IF s # "" /\ IsSpace(Char(s, Len(s)))
    THEN RStrip(SubSeq(s, 1, Len(s) - 1)) ELSE s
Strip(s) == RStrip(LStrip(s))

\* str.split(): the maximal runs of non-whitespace characters, in order
RECURSIVE SplitFrom(_, _)
SplitFrom(s, cur) ==
    IF s = "" THEN (IF cur = "" THEN << >> ELSE << cur >>)
    ELSE IF IsSpace(Head(s))
         THEN (IF cur = "" THEN << >> ELSE << cur >>) \o SplitFrom(Tail(s), "")
         ELSE SplitFrom(Tail(s), cur \o Head(s))
Split(s) == SplitFrom(s, "")

\* sep.join(parts)
RECURSIVE Join(_, _)
Join(sep, parts) ==
    IF parts = << >> THEN ""
    ELSE IF Len(parts) = 1 THEN parts[1]
    ELSE parts[1] \o sep \o Join(sep, Tail(parts))

Range(seq) == { seq[i] : i \in 1..Len(seq) }

----------------------------------------------------------------------------
(* ResumeScorer.calculate_skill_similarity                                 *)

\* a mutation: compares the arguments as given, without lower-casing them
calculate_skill_similarity_cased(s1, s2) ==
    LET chars == Rat(Cardinality(CharsOf(s1) \cap CharsOf(s2)),
                     Cardinality(CharsOf(s1) \cup CharsOf(s2)))
        words == Rat(Cardinality(Range(Split(s1)) \cap Range(Split(s2))),
                     Cardinality(Range(Split(s1)) \cup Range(Split(s2))))
    IN  IF s1 = s2 THEN << 1, 1 >>
        ELSE IF IsSubstr(s1, s2) \/ IsSubstr(s2, s1) THEN << 9, 10 >>
        ELSE IF Len(Split(s1)) > 1 \/ Len(Split(s2)) > 1 THEN RMax(chars, words)
        ELSE chars

calculate_skill_similarity(s1, s2) ==
    LET a == Lower(s1)
        b == Lower(s2)
        set1 == CharsOf(a)
        set2 == CharsOf(b)
        union == Cardinality(set1 \cup set2)
        char_similarity ==
            IF union > 0 THEN Rat(Cardinality(set1 \cap set2), union)
            ELSE << 0, 1 >>
        words1 == Split(a)
        words2 == Split(b)
        total_words == Range(words1) \cup Range(words2)
        word_similarity ==
            IF total_words # {}
            THEN Rat(Cardinality(Range(words1) \cap Range(words2)),
                     Cardinality(total_words))
            ELSE << 0, 1 >>
    IN  IF a = b THEN << 1, 1 >>
        ELSE IF IsSubstr(a, b) \/ IsSubstr(b, a) THEN << 9, 10 >>
        ELSE IF Len(words1) > 1 \/ Len(words2) > 1
             THEN RMax(char_similarity, word_similarity)
             ELSE char_similarity

----------------------------------------------------------------------------
(* Python values.  A dict field is Absent (no such key), None, or a value. *)

Absent == [tag |-> "absent"]
None == [tag |-> "none"]
StrV(s) == [tag |-> "str", s |-> s]
NumV(n) == [tag |-> "num", n |-> n]
ListV(l) == [tag |-> "list", items |-> l]

\* dict.get(key, default)
Get(field, default) == IF field = Absent THEN default ELSE field

\* the outcome of a call: a value, or the exception it raised
Ok(v) == [ok |-> TRUE, v |-> v]
Raise(msg) == [ok |-> FALSE, msg |-> msg]

----------------------------------------------------------------------------
(* ResumeScorer.__init__: the scorer's fixed tables.                       *)

\* stopwords.words('english'): the members of NLTK's list that the model's
\* texts can contain
stop_words ==
    { "a", "an", "and", "are", "as", "at", "be", "by", "for", "from", "in",
      "is", "of", "on", "or", "should", "such", "the", "to", "we", "with" }

ignore_words ==
    stop_words \cup
    { "experience", "knowledge", "skills", "ability", "proficiency",
      "familiar", "understanding", "working", "strong", "excellent",
      "good", "basic", "advanced", "expert", "years", "year",
      "plus", "bonus", "preferred", "required", "must", "should",
      "including", "such", "like", "using", "with", "of", "in",
      "and", "or", "the", "a", "an", "to", "for", "on", "at",
      "minimum", "maximum", "least", "development", "programming",
      "software", "application", "system", "technology", "tool",
      "framework", "library", "platform", "environment" }

\* education_hierarchy, in the dict's insertion order
education_levels ==
    << "phd", "doctorate", "doctoral", "master", "masters", "msc", "mba",
       "bachelor", "bachelors", "bsc", "ba", "associate", "diploma",
       "certificate", "certification" >>

education_hierarchy(level) ==
    CASE level \in {"phd", "doctorate", "doctoral"} -> 5
      [] level \in {"master", "masters", "msc", "mba"} -> 4
      [] level \in {"bachelor", "bachelors", "bsc", "ba"} -> 3
      [] level \in {"associate", "diploma"} -> 2
      [] level \in {"certificate", "certification"} -> 1
      [] OTHER -> 0

\* ScoringWeights(): the default weights, in hundredths
DefaultWeights ==
    [ok |-> TRUE, skills_weight |-> 35, experience_weight |-> 25,
     education_weight |-> 15, keywords_weight |-> 15, summary_weight |-> 10]

----------------------------------------------------------------------------
(* list(a_set): the iteration order of a set of strings is fixed by the    *)
(* process's hash seed; the two seeds of the model give opposite orders.   *)

RECURSIVE SetToSeq(_)
SetToSeq(S) ==
    IF S = {} THEN << >>
    ELSE LET x == CHOOSE y \in S : TRUE
         IN  << x >> \o SetToSeq(S \ {x})

Reverse(seq) == [i \in 1..Len(seq) |-> seq[Len(seq) + 1 - i]]

ListOfSet(S, seed) == IF seed = 0 THEN SetToSeq(S) ELSE Reverse(SetToSeq(S))

----------------------------------------------------------------------------
(* ResumeScorer.extract_skills_from_job_description                        *)
(*                                                                         *)
(* The texts of the model are lines of words made of letters and digits,   *)
(* a line optionally being a bullet ("- ...").  On such texts the section, *)
(* phrase, parenthesis and "N years ... in" patterns and the dotted and    *)
(* symbol-suffixed technology patterns find nothing: they need a trigger   *)
(* word or glyph that no text of the model holds.  The bullet pattern and  *)
(* the acronym pattern are modelled on the characters of the text.         *)

BulletGlyphs == {"-", "*"}
IsBullet(c) == c \in BulletGlyphs
WordChars == LetterSet \cup DigitSet \cup {"_"}
IsWordChar(c) == c \in WordChars

\* the longest prefix of s made of characters in S / not in S
RECURSIVE TakeWhileIn(_, _)
TakeWhileIn(s, S) ==
    IF s # "" /\ Head(s) \in S THEN Head(s) \o TakeWhileIn(Tail(s), S) ELSE ""
RECURSIVE TakeWhileNotIn(_, _)
TakeWhileNotIn(s, S) ==
    IF s # "" /\ Head(s) \notin S THEN Head(s) \o TakeWhileNotIn(Tail(s), S) ELSE ""

Drop(s, n) == SubSeq(s, n + 1, Len(s))

\* re.sub('[...]', repl, s) and re.sub('[^...]', repl, s) for a class S
RECURSIVE SubIn(_, _, _)
SubIn(s, S, repl) ==
    IF s = "" THEN ""
    ELSE (IF Head(s) \in S THEN repl ELSE Head(s)) \o SubIn(Tail(s), S, repl)
RECURSIVE SubNotIn(_, _, _)
SubNotIn(s, S, repl) ==
    IF s = "" THEN ""
    ELSE (IF Head(s) \notin S THEN repl ELSE Head(s)) \o SubNotIn(Tail(s), S, repl)

\* re.finditer(r'[•·\-\*]\s*([^•·\-\*\n]+)', text): group 1 of each match
RECURSIVE BulletChunks(_)
BulletChunks(text) ==
    IF text = "" THEN << >>
    ELSE IF IsBullet(Head(text))
         THEN LET rest == LStrip(Tail(text))
                  run == TakeWhileNotIn(rest, BulletGlyphs \cup {"\n"})
              IN  IF run # ""
                  THEN << run >> \o BulletChunks(Drop(rest, Len(run)))
                  ELSE BulletChunks(rest)
         ELSE BulletChunks(Tail(text))

\* the chunks kept: "if matched_text and len(matched_text.strip()) > 2"
extracted_text_chunks(jd_lower) ==
    LET all == BulletChunks(jd_lower)
    IN  SelectSeq([i \in 1..Len(all) |-> Strip(all[i])], LAMBDA c : Len(c) > 2)

ChunkSeparators == {",", ";", "(", ")", "&", "/", "|"}
IsPartSeparator(w) == w \in {"and", "or", "+"}

\* re.split(r'\s+(?:and|or|\+|,|;)\s+', cleaned_chunk), on the chunk's words:
\* a separator word needs whitespace of its own on both sides
RECURSIVE SplitParts(_, _, _, _)
SplitParts(words, i, cur, prevSep) ==
    IF i > Len(words) THEN << Join(" ", cur) >>
    ELSE IF IsPartSeparator(words[i]) /\ 1 < i /\ i < Len(words) /\ ~prevSep
         THEN << Join(" ", cur) >> \o SplitParts(words, i + 1, << >>, TRUE)
         ELSE SplitParts(words, i + 1, Append(cur, words[i]), FALSE)

SkillWordChars == WordChars \cup {"+", "#", ".", "-"}
Whitespace == {" ", "\n", "\t"}

\* the skills one part of a chunk contributes
PartSkills(part) ==
    LET words == Split(part)
        cleaned == { SubNotIn(words[i], SkillWordChars, "") : i \in 1..Len(words) }
        single == { Lower(w) : w \in { x \in cleaned :
                        Len(x) > 1 /\ Lower(x) \notin ignore_words /\ ~IsDigit(x) } }
        clean_part == Strip(SubNotIn(part, SkillWordChars \cup Whitespace, ""))
        multi ==
            IF /\ Len(words) <= 3
               /\ Len(part) <= 50
               /\ Len(clean_part) > 2
               /\ Range(Split(Lower(clean_part))) \cap ignore_words = {}
            THEN { Lower(clean_part) } ELSE {}
    IN  IF Len(part) > 1 THEN single \cup multi ELSE {}

ChunkSkills(chunk) ==
    LET cleaned_chunk == Join(" ", Split(SubIn(chunk, ChunkSeparators, " ")))
        parts == SplitParts(Split(cleaned_chunk), 1, << >>, FALSE)
    IN  UNION { PartSkills(Strip(parts[i])) : i \in 1..Len(parts) }

\* the maximal runs of word characters of a text
RECURSIVE WordRuns(_)
WordRuns(text) ==
    IF text = "" THEN << >>
    ELSE IF IsWordChar(Head(text))
         THEN LET run == TakeWhileIn(text, WordChars)
              IN  << run >> \o WordRuns(Drop(text, Len(run)))
         ELSE WordRuns(Tail(text))

IsUpperLetter(c) == c \in UpperSet

\* re.findall(r'\b[A-Z]{2,}\b', job_description)
Acronyms(text) ==
    { w \in Range(WordRuns(text)) :
        Len(w) >= 2 /\ \A i \in 1..Len(w) : IsUpperLetter(Char(w, i)) }

\* potential_skills, the set the function builds
potential_skills(jd) ==
    LET chunks == extracted_text_chunks(Lower(jd))
    IN  UNION { ChunkSkills(chunks[i]) : i \in 1..Len(chunks) }
        \cup { Lower(m) : m \in { a \in Acronyms(jd) : Lower(a) \notin ignore_words } }

extract_skills_from_job_description(jd, seed) ==
    ListOfSet(potential_skills(jd), seed)

----------------------------------------------------------------------------
(* ResumeScorer.extract_skills_from_resume                                 *)

TokenChars == LetterSet \cup DigitSet \cup {"+", "#", ".", "-"}

\* \b after the first k characters of text
AtBoundary(text, k) ==
    IsWordChar(Char(text, k)) # (k < Len(text) /\ IsWordChar(Char(text, k + 1)))

SetMax(S) == CHOOSE m \in S : \A x \in S : x <= m

\* re.findall(r'\b[a-zA-Z][a-zA-Z0-9\+#\.-]*\b', text); prevWord says whether
\* the character before text is a word character
RECURSIVE TechTokens(_, _)
TechTokens(text, prevWord) ==
    IF text = "" THEN << >>
    ELSE IF IsLetter(Head(text)) /\ ~prevWord
         THEN LET run == TakeWhileIn(text, TokenChars)
                  ends == { k \in 1..Len(run) : AtBoundary(text, k) }
              IN  IF ends # {}
                  THEN << SubSeq(text, 1, SetMax(ends)) >>
                       \o TechTokens(Drop(text, SetMax(ends)),
                                     IsWordChar(Char(text, SetMax(ends))))
                  ELSE TechTokens(Tail(text), TRUE)
         ELSE TechTokens(Tail(text), IsWordChar(Head(text)))

\* ' '.join([e.get(a, '') + ' ' + e.get(b, '') for e in entries])
EntryTexts(entries, a, b) ==
    Join(" ", [i \in 1..Len(entries) |-> entries[i][a] \o " " \o entries[i][b]])

extract_skills_from_resume(resume) ==
    LET skills == Get(resume.skills, ListV(<< >>))
        summary == Get(resume.summary, StrV(""))
        experience == Get(resume.experience, ListV(<< >>))
        education == Get(resume.education, ListV(<< >>))
        raw_text == Get(resume.raw_text, StrV(""))
        listed == { Strip(Lower(skills.items[i])) : i \in 1..Len(skills.items) }
        full_resume_text ==
            Lower(Join(" ", << summary.s,
                               EntryTexts(experience.items, "title", "context"),
                               EntryTexts(education.items, "institution", "context"),
                               raw_text.s >>))
        words == Range(TechTokens(full_resume_text, FALSE))
        mined == { Lower(w) : w \in { x \in words :
                       Len(x) > 1 /\ Lower(x) \notin ignore_words /\ ~IsDigit(x) } }
    IN  IF skills.tag # "list" THEN Raise("'NoneType' object is not iterable")
        ELSE IF experience.tag # "list" THEN Raise("'NoneType' object is not iterable")
        ELSE IF education.tag # "list" THEN Raise("'NoneType' object is not iterable")
        ELSE IF summary.tag # "str"
             THEN Raise("sequence item 0: expected str instance, NoneType found")
        ELSE IF raw_text.tag # "str"
             THEN Raise("sequence item 3: expected str instance, NoneType found")
        ELSE Ok(listed \cup mined)

----------------------------------------------------------------------------
(* ResumeScorer.score_skills_direct_match                                  *)

\* the best similarity of a job skill over the resume skills (0 when none)
best_similarity(job_skill, resume_skills) ==
    LET sims == { calculate_skill_similarity(job_skill, r) : r \in resume_skills }
    IN  IF sims = {} THEN << 0, 1 >>
        ELSE CHOOSE m \in sims : \A x \in sims : RLe(x, m)

\* a mutation: the threshold test is strict, "best_similarity > 0.7"
IsMatched_strict(job_skill, resume_skills) ==
    RGt(best_similarity(job_skill, resume_skills), << 7, 10 >>)

IsMatched(job_skill, resume_skills) ==
    RGe(best_similarity(job_skill, resume_skills), << 7, 10 >>)

\* the job skills appended to matched_skills, in job_skills order
matched_of(job_skills, resume_skills) ==
    SelectSeq(job_skills, LAMBDA s : IsMatched(s, resume_skills))

\* a mutation: the else branch is a second test with a threshold of its own,
\* "if best_similarity < 0.9: missing_skills.append(job_skill)"
missing_of_second_test(job_skills, resume_skills) ==
    SelectSeq(job_skills,
              LAMBDA s : RLt(best_similarity(s, resume_skills), << 9, 10 >>))

\* the job skills appended to missing_skills, in job_skills order
missing_of(job_skills, resume_skills) ==
    SelectSeq(job_skills, LAMBDA s : ~IsMatched(s, resume_skills))

Min(a, b) == IF a < b THEN a ELSE b
Max(a, b) == IF a > b THEN a ELSE b
Take(seq, n) == SubSeq(seq, 1, Min(n, Len(seq)))

\* a mutation: the abundance bonus is not capped
score_skills_direct_match_uncapped(resume, jd, seed) ==
    LET job_skills == extract_skills_from_job_description(jd, seed)
        extracted == extract_skills_from_resume(resume)
        resume_skills == extracted.v
        matched_skills == matched_of(job_skills, resume_skills)
        match_rate == Rat(Len(matched_skills), Len(job_skills))
        skill_abundance_bonus ==
            RMul(Rat(Cardinality(resume_skills), Max(1, Len(job_skills))), Num(10))
    IN  IF ~extracted.ok THEN extracted
        ELSE IF job_skills = << >>
        THEN Ok([score |-> Num(50), matched |-> << >>, missing |-> job_skills,
                 debug |-> [job_skills_found |-> 0]])
        ELSE Ok([score |-> RMin(Num(100), RAdd(RMul(match_rate, Num(85)),
                                               skill_abundance_bonus)),
                 matched |-> matched_skills,
                 missing |-> missing_of(job_skills, resume_skills),
                 debug |-> [job_skills_found |-> Len(job_skills)]])

score_skills_direct_match(resume, jd, seed) ==
    LET job_skills == extract_skills_from_job_description(jd, seed)
        extracted == extract_skills_from_resume(resume)
        resume_skills == extracted.v
        matched_skills == matched_of(job_skills, resume_skills)
        missing_skills == missing_of(job_skills, resume_skills)
        match_rate == Rat(Len(matched_skills), Len(job_skills))
        base_score == RMul(match_rate, Num(85))
        skill_abundance_bonus ==
            RMin(Num(15), RMul(Rat(Cardinality(resume_skills), Max(1, Len(job_skills))),
                               Num(10)))
        total_score == RMin(Num(100), RAdd(base_score, skill_abundance_bonus))
    IN  IF ~extracted.ok THEN extracted
        ELSE IF job_skills = << >>
        THEN Ok([score |-> Num(50), matched |-> << >>, missing |-> job_skills,
                 debug |-> [job_skills_found |-> 0,
                            resume_skills_found |-> Cardinality(resume_skills),
                            reason |-> "No skills extracted from job description"]])
        ELSE Ok([score |-> total_score, matched |-> matched_skills,
                 missing |-> missing_skills,
                 debug |-> [job_skills_found |-> Len(job_skills),
                            resume_skills_found |-> Cardinality(resume_skills),
                            job_skills |-> Take(job_skills, 10),
                            resume_skills_sample |-> Take(ListOfSet(resume_skills, seed), 10),
                            match_rate |-> match_rate,
                            base_score |-> base_score,
                            skill_abundance_bonus |-> skill_abundance_bonus]])

----------------------------------------------------------------------------
(* The four component scorers and their helpers.                           *)

\* safe_tokenize: on texts of whitespace-separated words and bullet glyphs
\* word_tokenize and the regex fallback both give the words; the glyph
\* tokens word_tokenize adds are not alphabetic and _clean_tokens drops them
safe_tokenize(text) == Split(text)

clean_tokens(tokens) ==
    SelectSeq(tokens, LAMBDA tok : Len(tok) > 2 /\ IsAlpha(tok) /\ tok \notin stop_words)

TokenSet(text) == Range(clean_tokens(safe_tokenize(text)))

\* "value or 0" on total_experience_years
OrZero(v) ==
    IF v = None \/ v = NumV(0) \/ v = StrV("") THEN NumV(0) ELSE v

\* a mutation: the gap is the signed difference, without max(0, ...)
score_experience_signed_gap(resume, reqs) ==
    LET resume_experience == OrZero(Get(resume.total_experience_years, NumV(0)))
        required_experience == reqs.min_experience
        r == resume_experience.n
        score == IF r >= required_experience
                 THEN Min(100, 75 + Min(25, (r - required_experience) * 5))
                 ELSE Max(0, 75 - (required_experience - r) * 15)
    IN  IF required_experience = 0 THEN Ok([score |-> Num(75), gap |-> 0])
        ELSE IF resume_experience.tag # "num"
        THEN Raise("'>=' not supported between instances of 'str' and 'int'")
        ELSE Ok([score |-> Num(score), gap |-> required_experience - r])

score_experience(resume, reqs) ==
    LET resume_experience == OrZero(Get(resume.total_experience_years, NumV(0)))
        required_experience == reqs.min_experience
        r == resume_experience.n
        bonus == Min(25, (r - required_experience) * 5)
        penalty == (required_experience - r) * 15
        score == IF r >= required_experience
                 THEN Min(100, 75 + bonus)
                 ELSE Max(0, 75 - penalty)
    IN  IF required_experience = 0 THEN Ok([score |-> Num(75), gap |-> 0])
        ELSE IF resume_experience.tag # "num"
        THEN Raise("'>=' not supported between instances of 'str' and 'int'")
        ELSE Ok([score |-> Num(score), gap |-> Max(0, required_experience - r)])

\* "not x" for None, '' and []
Falsy(v) == v = None \/ v = StrV("") \/ v = ListV(<< >>)

\* the highest hierarchy level whose keyword occurs in an education entry
highest_level(education_data) ==
    LET hits == { education_hierarchy(education_levels[k]) :
                    k \in { j \in 1..Len(education_levels) :
                              \E i \in 1..Len(education_data) :
                                 IsSubstr(education_levels[j],
                                          Lower(education_data[i].institution) \o " "
                                          \o Lower(education_data[i].context)) } }
    IN  IF hits = {} THEN 0 ELSE SetMax(hits)

\* a mutation: a resume without education data gets the neutral score
score_education_neutral_without_data(resume, reqs) ==
    LET education_data == Get(resume.education, ListV(<< >>))
        required_education == reqs.education_requirement
        highest == highest_level(education_data.items)
        required_level == education_hierarchy(Lower(required_education.s))
        score == IF highest >= required_level
                 THEN Min(100, 80 + (highest - required_level) * 10)
                 ELSE Max(20, 80 - (required_level - highest) * 20)
    IN  IF Falsy(required_education) \/ Falsy(education_data) THEN Ok([score |-> Num(75)])
        ELSE Ok([score |-> Num(score)])

score_education(resume, reqs) ==
    LET education_data == Get(resume.education, ListV(<< >>))
        required_education == reqs.education_requirement
        highest == highest_level(education_data.items)
        required_level == education_hierarchy(Lower(required_education.s))
        score == IF highest >= required_level
                 THEN Min(100, 80 + (highest - required_level) * 10)
                 ELSE Max(20, 80 - (required_level - highest) * 20)
    IN  IF Falsy(required_education) THEN Ok([score |-> Num(75)])
        ELSE IF Falsy(education_data) THEN Ok([score |-> Num(30)])
        ELSE Ok([score |-> Num(score)])

\* str(value) of the summary field
StrOf(v) == IF v = None THEN "None" ELSE v.s

TitleTexts(entries) == Join(" ", [i \in 1..Len(entries) |-> entries[i].title])

score_keywords(resume, jd) ==
    LET skills == Get(resume.skills, ListV(<< >>))
        summary == Get(resume.summary, StrV(""))
        experience == Get(resume.experience, ListV(<< >>))
        resume_text == Lower(Join(" ", skills.items) \o " " \o StrOf(summary) \o " "
                             \o TitleTexts(experience.items))
        resume_tokens == TokenSet(resume_text)
        jd_tokens == TokenSet(Lower(jd))
        overlap == Cardinality(resume_tokens \cap jd_tokens)
        union == Cardinality(resume_tokens \cup jd_tokens)
        jaccard_score == IF union > 0 THEN RMul(Rat(overlap, union), Num(100))
                         ELSE Num(0)
    IN  IF skills.tag # "list" THEN Raise("can only join an iterable")
        ELSE IF experience.tag # "list" THEN Raise("'NoneType' object is not iterable")
        ELSE IF jd_tokens = {} THEN Ok([score |-> Num(50)])
        ELSE Ok([score |-> RMin(Num(100), RMul(jaccard_score, Num(2)))])

\* a mutation: the relevance is doubled, as the keyword overlap is
score_summary_doubled(resume, jd) ==
    LET summary == Get(resume.summary, StrV(""))
        jd_tokens == TokenSet(Lower(jd))
        summary_tokens == TokenSet(Lower(summary.s))
        overlap == Cardinality(summary_tokens \cap jd_tokens)
        relevance_score == RMul(Rat(overlap, Cardinality(jd_tokens)), Num(100))
    IN  IF Falsy(summary) THEN Ok([score |-> Num(50)])
        ELSE IF jd_tokens = {} THEN Ok([score |-> Num(50)])
        ELSE Ok([score |-> RMin(Num(100), RMul(relevance_score, Num(2)))])

score_summary(resume, jd) ==
    LET summary == Get(resume.summary, StrV(""))
        jd_tokens == TokenSet(Lower(jd))
        summary_tokens == TokenSet(Lower(summary.s))
        overlap == Cardinality(summary_tokens \cap jd_tokens)
        relevance_score == RMul(Rat(overlap, Cardinality(jd_tokens)), Num(100))
    IN  IF Falsy(summary) THEN Ok([score |-> Num(50)])
        ELSE IF jd_tokens = {} THEN Ok([score |-> Num(50)])
        ELSE Ok([score |-> RMin(Num(100), RMul(relevance_score, Num(3)))])

----------------------------------------------------------------------------
(* ResumeScorer._parse_job_description_simple                              *)
(*                                                                         *)
(* The numbers of the model's texts are words of digits, so the patterns   *)
(* are read on the words of the lower-cased text; the fourth pattern,      *)
(* "N+ years", needs a "+" and finds nothing.                              *)

HasPrefix(s, p) == Len(s) >= Len(p) /\ SubSeq(s, 1, Len(p)) = p
HasSuffix(s, p) == Len(s) >= Len(p) /\ SubSeq(s, Len(s) - Len(p) + 1, Len(s)) = p

DigitValue(c) == CHOOSE d \in 0..9 : Char(Digits, d + 1) = c

\* int(s) for a string of digits
RECURSIVE StrToInt(_)
StrToInt(s) ==
    IF s = "" THEN 0
    ELSE StrToInt(SubSeq(s, 1, Len(s) - 1)) * 10 + DigitValue(Char(s, Len(s)))

WordAt(words, i) == IF i <= Len(words) THEN words[i] ELSE ""
IsYears(w) == w \in {"year", "years"}

\* r'(\d+)[\+\s]*years?\s+(?:of\s+)?(?:experience|exp)' matches at word i
ExpPattern1(words, i) ==
    /\ IsDigit(WordAt(words, i))
    /\ IsYears(WordAt(words, i + 1))
    /\ \/ HasPrefix(WordAt(words, i + 2), "exp")
       \/ WordAt(words, i + 2) = "of" /\ HasPrefix(WordAt(words, i + 3), "exp")

\* r'minimum\s+(\d+)\s+years?' matches with its number at word i
ExpPattern2(words, i) ==
    /\ i > 1
    /\ HasSuffix(WordAt(words, i - 1), "minimum")
    /\ IsDigit(WordAt(words, i))
    /\ HasPrefix(WordAt(words, i + 1), "year")

\* r'(\d+)[\+\s]*years?\s+(?:in|with|of)' matches at word i
ExpPattern3(words, i) ==
    /\ IsDigit(WordAt(words, i))
    /\ IsYears(WordAt(words, i + 1))
    /\ \E p \in {"in", "with", "of"} : HasPrefix(WordAt(words, i + 2), p)

\* int(matches[0]) for one pattern, 0 when it has no match
\* (at: the positions where it matches)
FirstMatch(words, at) ==
    IF at = {} THEN 0
    ELSE StrToInt(words[CHOOSE i \in at : \A j \in at : i <= j])

parse_min_experience(words) ==
    LET positions == 1..Len(words)
    IN  Max(Max(FirstMatch(words, { i \in positions : ExpPattern1(words, i) }),
                FirstMatch(words, { i \in positions : ExpPattern2(words, i) })),
            FirstMatch(words, { i \in positions : ExpPattern3(words, i) }))

\* the education keyword the loop over education_hierarchy.keys() ends with
RECURSIVE parse_education(_, _, _)
parse_education(jd_lower, k, requirement) ==
    IF k > Len(education_levels) THEN requirement
    ELSE LET edu_level == education_levels[k]
             better == \/ requirement = None
                       \/ education_hierarchy(edu_level)
                            > education_hierarchy(requirement.s)
         IN  IF IsSubstr(edu_level, jd_lower) /\ better
             THEN parse_education(jd_lower, k + 1, StrV(edu_level))
             ELSE parse_education(jd_lower, k + 1, requirement)

parse_job_description_simple(jd) ==
    [min_experience |-> parse_min_experience(Split(Lower(jd))),
     education_requirement |-> parse_education(Lower(jd), 1, None)]

----------------------------------------------------------------------------
(* ResumeScorer._generate_recommendations and _create_error_result         *)

\* str(n) for n >= 0
RECURSIVE IntToStr(_)
IntToStr(n) ==
    IF n < 10 THEN Char(Digits, n + 1)
    ELSE IntToStr(n \div 10) \o Char(Digits, (n % 10) + 1)

\* f"{gap:.1f}" for a whole number of years
FormatGap(gap) == IntToStr(gap) \o ".0"

SkillsGapMessage(missing) ==
    "Skills gap identified. Missing " \o IntToStr(Len(missing)) \o " key skills: "
    \o Join(", ", Take(missing, 3)) \o (IF Len(missing) > 3 THEN "..." ELSE "")

ExperienceGapMessage(gap) ==
    "Experience gap: " \o FormatGap(gap) \o " years below requirement"

EducationMessage == "Education level may not meet job requirements"
KeywordsMessage == "Resume could better match job description keywords"
SummaryMessage == "Professional summary could be more aligned with job requirements"
FallbackMessage == "Strong candidate match across all criteria"

\* a mutation: the skills message does not wait for a missing skill
SkillsTriggered_any_count(sk) == RLt(sk.score, Num(60))

SkillsTriggered(sk) == RLt(sk.score, Num(60)) /\ Len(sk.missing) > 0
ExperienceTriggered(ex) == RLt(ex.score, Num(60)) /\ ex.gap > 0
EducationTriggered(ed) == RLt(ed.score, Num(60))
KeywordsTriggered(kw) == RLt(kw.score, Num(50))
SummaryTriggered(sm) == RLt(sm.score, Num(50))

\* a mutation: the positive fallback is not appended
generate_recommendations_no_fallback(sk, ex, ed, kw, sm) ==
    (IF SkillsTriggered(sk) THEN << SkillsGapMessage(sk.missing) >> ELSE << >>)
    \o (IF ExperienceTriggered(ex) THEN << ExperienceGapMessage(ex.gap) >> ELSE << >>)
    \o (IF EducationTriggered(ed) THEN << EducationMessage >> ELSE << >>)
    \o (IF KeywordsTriggered(kw) THEN << KeywordsMessage >> ELSE << >>)
    \o (IF SummaryTriggered(sm) THEN << SummaryMessage >> ELSE << >>)

generate_recommendations(sk, ex, ed, kw, sm) ==
    LET recommendations ==
            (IF SkillsTriggered(sk) THEN << SkillsGapMessage(sk.missing) >> ELSE << >>)
            \o (IF ExperienceTriggered(ex) THEN << ExperienceGapMessage(ex.gap) >> ELSE << >>)
            \o (IF EducationTriggered(ed) THEN << EducationMessage >> ELSE << >>)
            \o (IF KeywordsTriggered(kw) THEN << KeywordsMessage >> ELSE << >>)
            \o (IF SummaryTriggered(sm) THEN << SummaryMessage >> ELSE << >>)
    IN  IF recommendations = << >> THEN << FallbackMessage >> ELSE recommendations

\* a mutation: the error description is left out of the recommendation
create_error_result_silent(error_message) ==
    [overall_score |-> Num(0), skills_score |-> Num(0), experience_score |-> Num(0),
     education_score |-> Num(0), keywords_score |-> Num(0), summary_score |-> Num(0),
     matched_skills |-> << >>, missing_skills |-> << >>, experience_gap |-> 0,
     recommendations |-> << "Error in scoring" >>,
     debug_info |-> None]

create_error_result(error_message) ==
    [overall_score |-> Num(0), skills_score |-> Num(0), experience_score |-> Num(0),
     education_score |-> Num(0), keywords_score |-> Num(0), summary_score |-> Num(0),
     matched_skills |-> << >>, missing_skills |-> << >>, experience_gap |-> 0,
     recommendations |-> << "Error in scoring: " \o error_message >>,
     debug_info |-> None]

----------------------------------------------------------------------------
(* The aggregation at the end of calculate_match_score.                    *)

\* a mutation: the value is cut after two decimals instead of rounded
Round2_truncated(x) == Rat((x[1] * 100) \div x[2], 100)

\* round(x, 2) for x >= 0: the nearest hundredth, ties to the even one
Round2(x) ==
    LET scaled == x[1] * 100
        k == scaled \div x[2]
        twice == 2 * (scaled - k * x[2])
        up == twice > x[2] \/ (twice = x[2] /\ k % 2 = 1)
    IN  Rat(IF up THEN k + 1 ELSE k, 100)

Weighted(score, weight) == RMul(score, Rat(weight, 100))

overall_score(w, sk, ex, ed, kw, sm) ==
    RAdd(RAdd(RAdd(RAdd(Weighted(sk.score, w.skills_weight),
                        Weighted(ex.score, w.experience_weight)),
                   Weighted(ed.score, w.education_weight)),
              Weighted(kw.score, w.keywords_weight)),
         Weighted(sm.score, w.summary_weight))

\* the MatchResult of a call in which no step raised
match_result(w, sk, ex, ed, kw, sm) ==
    [overall_score |-> Round2(overall_score(w, sk, ex, ed, kw, sm)),
     skills_score |-> Round2(sk.score),
     experience_score |-> Round2(ex.score),
     education_score |-> Round2(ed.score),
     keywords_score |-> Round2(kw.score),
     summary_score |-> Round2(sm.score),
     matched_skills |-> sk.matched,
     missing_skills |-> sk.missing,
     experience_gap |-> ex.gap,
     recommendations |-> generate_recommendations(sk, ex, ed, kw, sm),
     debug_info |-> sk.debug]

\* the aggregation step: reading a weight of a malformed weights object raises
aggregate(w, sk, ex, ed, kw, sm) ==
    IF ~w.ok THEN Raise("'dict' object has no attribute 'skills_weight'")
    ELSE Ok(match_result(w, sk, ex, ed, kw, sm))

----------------------------------------------------------------------------
(* The inputs of the model.                                                *)

MaxJobLines == 2
MaxYears == 3

\* the lines a job description is made of, in the order they appear
JobLines ==
    << "- Python and SQL",
       "- react perl algorithms",
       "3 years of experience",
       "bachelor degree" >>

\* a job description: at most MaxJobLines of the lines, joined by newlines
JobDescriptions ==
    { Join("\n", SelectSeq(JobLines, LAMBDA l : l \in S)) :
        S \in { T \in SUBSET Range(JobLines) : Cardinality(T) <= MaxJobLines } }

SkillsOptions ==
    { Absent, None, ListV(<< >>), ListV(<< "Python", "SQL " >>),
      ListV(<< "trace", "kepler" >>), ListV(<< "tailors" >>) }

SummaryOptions ==
    { Absent, None, StrV(""), StrV("python developer with experience") }

ExperienceOptions ==
    { Absent, ListV(<< [title |-> "react engineer", context |-> ""] >>) }

EducationOptions ==
    { Absent, ListV(<< >>),
      ListV(<< [institution |-> "state university", context |-> "bsc physics"] >>) }

\* total_experience_years: missing, None, a number, or (malformed) a string
YearsOptions == { Absent, None, StrV("5") } \cup { NumV(y) : y \in 0..MaxYears }

BaselineResume ==
    [skills |-> ListV(<< "Python", "SQL " >>),
     summary |-> StrV("python developer with experience"),
     experience |-> ListV(<< [title |-> "react engineer", context |-> ""] >>),
     education |-> ListV(<< [institution |-> "state university",
                            context |-> "bsc physics"] >>),
     raw_text |-> Absent,
     total_experience_years |-> NumV(MaxYears)]

EmptyResume ==
    [skills |-> Absent, summary |-> Absent, experience |-> Absent,
     education |-> Absent, raw_text |-> Absent, total_experience_years |-> Absent]

Deviations(r, base) ==
    Cardinality({ f \in DOMAIN r : r[f] # base[f] })

\* the resume records of the model: the baseline and the empty record, each
\* with at most one field replaced
ResumeRecords ==
    { r \in [skills : SkillsOptions, summary : SummaryOptions,
             experience : ExperienceOptions, education : EducationOptions,
             raw_text : {Absent}, total_experience_years : YearsOptions] :
        Deviations(r, BaselineResume) <= 1 \/ Deviations(r, EmptyResume) <= 1 }

\* weights of 1.0 each: non-negative, not summing to 1.0
UnitWeights ==
    [ok |-> TRUE, skills_weight |-> 100, experience_weight |-> 100,
     education_weight |-> 100, keywords_weight |-> 100, summary_weight |-> 100]

\* a weights object without the weight attributes (a plain dict)
MalformedWeights == [ok |-> FALSE]

WeightsOptions == { DefaultWeights, UnitWeights, MalformedWeights }

\* the explicit (min_experience, education_requirement) arguments of a call
CallArguments == { << None, None >>, << NumV(5), StrV("Master") >> }

----------------------------------------------------------------------------
(* ResumeScorer.calculate_match_score, one action per step of its body.    *)

\* no call in progress: the frame's variables hold nothing
Idle ==
    /\ pc = "idle"
    /\ parsed_resume = None /\ job_description = None
    /\ arg_min_experience = None /\ arg_education = None
    /\ job_requirements = None
    /\ skills_result = None /\ experience_result = None
    /\ education_result = None /\ keywords_result = None
    /\ summary_result = None
    /\ exc = None /\ result = None /\ escaped = FALSE

SimIdle == skill1 = "" /\ skill2 = "" /\ sim_pc = "idle" /\ similarity = None

\* the frame of the running call, and the frame of no call
Frame ==
    [pc |-> pc, parsed_resume |-> parsed_resume, job_description |-> job_description,
     arg_min_experience |-> arg_min_experience, arg_education |-> arg_education,
     job_requirements |-> job_requirements, skills_result |-> skills_result,
     experience_result |-> experience_result, education_result |-> education_result,
     keywords_result |-> keywords_result, summary_result |-> summary_result,
     exc |-> exc, result |-> result, escaped |-> escaped]

IdleFrame ==
    [pc |-> "idle", parsed_resume |-> None, job_description |-> None,
     arg_min_experience |-> None, arg_education |-> None,
     job_requirements |-> None, skills_result |-> None,
     experience_result |-> None, education_result |-> None,
     keywords_result |-> None, summary_result |-> None,
     exc |-> None, result |-> None, escaped |-> FALSE]

\* no DataStore has been opened
NoStore ==
    /\ foreign_keys = FALSE
    /\ resumes = << >>
    /\ job_descriptions = << >>
    /\ analyses = << >>

\* _run_full_analysis is not running
NoRun ==
    /\ variant = "" /\ run_pc = "idle" /\ stopwords_loadable = TRUE
    /\ resume_path = None /\ tmp_file = "" /\ job_desc = None
    /\ run_parsed_resume = None /\ run_match_result = None
    /\ dashboard = None /\ reports = None /\ run_exc = None
    /\ run_log = << >>

\* nothing but the scorer is in use
ScorerOnly == NoStore /\ NoRun

\* no second thread, no direct call of a scoring function
SingleThread == suspended = IdleFrame

UnitIdle ==
    unit_pc = "idle" /\ unit_fn = "" /\ unit_input = None /\ unit_output = None

Init ==
    /\ weights \in WeightsOptions
    /\ hash_seed \in {0, 1}
    /\ Idle
    /\ SimIdle
    /\ SingleThread
    /\ ScorerOnly
    /\ UnitIdle

\* a caller invokes calculate_match_score with arguments from the given sets
CallWith(records, jobs, arguments) ==
    /\ pc = "idle"
    /\ parsed_resume' \in records
    /\ job_description' \in jobs
    /\ \E a \in arguments : arg_min_experience' = a[1] /\ arg_education' = a[2]
    /\ pc' = "parse"
    /\ UNCHANGED << weights, hash_seed, job_requirements, skills_result,
                    experience_result, education_result, keywords_result,
                    summary_result, exc, result, escaped, other_vars >>

\* the caller invokes calculate_match_score
Call == CallWith(ResumeRecords, JobDescriptions, CallArguments)

\* job_requirements, with the explicit arguments overriding the parsed ones
requirements(jd, min_experience, education_requirement) ==
    LET parsed == parse_job_description_simple(jd)
    IN  [min_experience |-> IF min_experience # None THEN min_experience.n
                            ELSE parsed.min_experience,
         education_requirement |-> IF ~Falsy(education_requirement)
                                   THEN education_requirement
                                   ELSE parsed.education_requirement]

ParseJob ==
    /\ pc = "parse"
    /\ job_requirements' = requirements(job_description, arg_min_experience, arg_education)
    /\ pc' = "skills"
    /\ UNCHANGED << weights, hash_seed, parsed_resume, job_description,
                    arg_min_experience, arg_education, skills_result,
                    experience_result, education_result, keywords_result,
                    summary_result, exc, result, escaped, other_vars >>

\* one scoring step: on success the local is bound and control moves on, on an
\* exception control leaves the try block for the handler
Step(here, outcome, next) ==
    /\ pc = here
    /\ IF outcome.ok
       THEN pc' = next /\ exc' = exc
       ELSE pc' = "except" /\ exc' = outcome

ScoreSkills ==
    LET r == score_skills_direct_match(parsed_resume, job_description, hash_seed)
    IN  /\ Step("skills", r, "experience")
        /\ skills_result' = IF r.ok THEN r.v ELSE skills_result
        /\ UNCHANGED << weights, hash_seed, parsed_resume, job_description,
                        arg_min_experience, arg_education, job_requirements,
                        experience_result, education_result, keywords_result,
                        summary_result, result, escaped, other_vars >>

ScoreExperience ==
    LET r == score_experience(parsed_resume, job_requirements)
    IN  /\ Step("experience", r, "education")
        /\ experience_result' = IF r.ok THEN r.v ELSE experience_result
        /\ UNCHANGED << weights, hash_seed, parsed_resume, job_description,
                        arg_min_experience, arg_education, job_requirements,
                        skills_result, education_result, keywords_result,
                        summary_result, result, escaped, other_vars >>

ScoreEducation ==
    LET r == score_education(parsed_resume, job_requirements)
    IN  /\ Step("education", r, "keywords")
        /\ education_result' = IF r.ok THEN r.v ELSE education_result
        /\ UNCHANGED << weights, hash_seed, parsed_resume, job_description,
                        arg_min_experience, arg_education, job_requirements,
                        skills_result, experience_result, keywords_result,
                        summary_result, result, escaped, other_vars >>

ScoreKeywords ==
    LET r == score_keywords(parsed_resume, job_description)
    IN  /\ Step("keywords", r, "summary")
        /\ keywords_result' = IF r.ok THEN r.v ELSE keywords_result
        /\ UNCHANGED << weights, hash_seed, parsed_resume, job_description,
                        arg_min_experience, arg_education, job_requirements,
                        skills_result, experience_result, education_result,
                        summary_result, result, escaped, other_vars >>

ScoreSummary ==
    LET r == score_summary(parsed_resume, job_description)
    IN  /\ Step("summary", r, "aggregate")
        /\ summary_result' = IF r.ok THEN r.v ELSE summary_result
        /\ UNCHANGED << weights, hash_seed, parsed_resume, job_description,
                        arg_min_experience, arg_education, job_requirements,
                        skills_result, experience_result, education_result,
                        keywords_result, result, escaped, other_vars >>

\* the weighted sum, the recommendations and the MatchResult
Aggregate ==
    LET r == aggregate(weights, skills_result, experience_result, education_result,
                       keywords_result, summary_result)
    IN  /\ Step("aggregate", r, "done")
        /\ result' = IF r.ok THEN r.v ELSE result
        /\ UNCHANGED << weights, hash_seed, parsed_resume, job_description,
                        arg_min_experience, arg_education, job_requirements,
                        skills_result, experience_result, education_result,
                        keywords_result, summary_result, escaped, other_vars >>

\* except Exception as e: return self._create_error_result(str(e))
Except ==
    /\ pc = "except"
    /\ result' = create_error_result(exc.msg)
    /\ pc' = "done"
    /\ UNCHANGED << weights, hash_seed, parsed_resume, job_description,
                    arg_min_experience, arg_education, job_requirements,
                    skills_result, experience_result, education_result,
                    keywords_result, summary_result, exc, escaped, other_vars >>

\* the caller has the MatchResult; the call's frame is gone
Return ==
    /\ pc = "done"
    /\ pc' = "idle"
    /\ parsed_resume' = None /\ job_description' = None
    /\ arg_min_experience' = None /\ arg_education' = None
    /\ job_requirements' = None
    /\ skills_result' = None /\ experience_result' = None
    /\ education_result' = None /\ keywords_result' = None
    /\ summary_result' = None
    /\ exc' = None /\ result' = None /\ escaped' = FALSE
    /\ UNCHANGED << weights, hash_seed, other_vars >>

\* the frame's part of a call made by another function of the program: the
\* arguments are bound and control is at the first statement
Enter(resume, jd, min_experience, education_requirement) ==
    /\ pc = "idle"
    /\ parsed_resume' = resume
    /\ job_description' = jd
    /\ arg_min_experience' = min_experience
    /\ arg_education' = education_requirement
    /\ pc' = "parse"
    /\ UNCHANGED << weights, hash_seed, job_requirements, skills_result,
                    experience_result, education_result, keywords_result,
                    summary_result, exc, result, escaped, sim_vars, suspended >>

\* the frame's part of the return to that function
Leave ==
    /\ pc = "done"
    /\ pc' = "idle"
    /\ parsed_resume' = None /\ job_description' = None
    /\ arg_min_experience' = None /\ arg_education' = None
    /\ job_requirements' = None
    /\ skills_result' = None /\ experience_result' = None
    /\ education_result' = None /\ keywords_result' = None
    /\ summary_result' = None
    /\ exc' = None /\ result' = None /\ escaped' = FALSE
    /\ UNCHANGED << weights, hash_seed, sim_vars, suspended >>

\* the MatchResult of a whole call, as a function of the arguments, the
\* weights and the process's hash seed: the steps above, run to the end
calculate_match_score(resume, jd, min_experience, education_requirement, w, seed) ==
    LET reqs == requirements(jd, min_experience, education_requirement)
        sk == score_skills_direct_match(resume, jd, seed)
        ex == score_experience(resume, reqs)
        ed == score_education(resume, reqs)
        kw == score_keywords(resume, jd)
        sm == score_summary(resume, jd)
        raised == IF ~sk.ok THEN sk ELSE IF ~ex.ok THEN ex ELSE IF ~ed.ok THEN ed
                  ELSE IF ~kw.ok THEN kw ELSE IF ~sm.ok THEN sm
                  ELSE aggregate(w, sk.v, ex.v, ed.v, kw.v, sm.v)
    IN  IF raised.ok THEN raised.v ELSE create_error_result(raised.msg)

Next ==
    \/ Call \/ ParseJob \/ ScoreSkills \/ ScoreExperience \/ ScoreEducation
    \/ ScoreKeywords \/ ScoreSummary \/ Aggregate \/ Except \/ Return

Spec == Init /\ [][Next]_vars

----------------------------------------------------------------------------
(* Two threads calling calculate_match_score on one ResumeScorer. The      *)
(* interpreter runs one thread at a time and may switch between any two    *)
(* steps: the running call's frame is set aside and the other thread's     *)
(* frame resumes. The scorer (weights, word tables) and the process's hash *)
(* seed are the only state the threads share.                              *)

ThreadResumes ==
    { EmptyResume, BaselineResume,
      [EmptyResume EXCEPT !.total_experience_years = StrV("5")] }

ThreadJobs == { "- Python and SQL", "3 years of experience" }

ThreadCall == CallWith(ThreadResumes, ThreadJobs, { << None, None >> })

\* a mutation: job_requirements is kept on the scorer, shared by the threads
Switch_shared_requirements ==
    /\ pc' = suspended.pc
    /\ parsed_resume' = suspended.parsed_resume
    /\ job_description' = suspended.job_description
    /\ arg_min_experience' = suspended.arg_min_experience
    /\ arg_education' = suspended.arg_education
    /\ job_requirements' = job_requirements
    /\ skills_result' = suspended.skills_result
    /\ experience_result' = suspended.experience_result
    /\ education_result' = suspended.education_result
    /\ keywords_result' = suspended.keywords_result
    /\ summary_result' = suspended.summary_result
    /\ exc' = suspended.exc
    /\ result' = suspended.result
    /\ escaped' = suspended.escaped
    /\ suspended' = Frame
    /\ UNCHANGED << weights, hash_seed, sim_vars, unit_vars, rest_vars >>

\* the interpreter switches threads: every argument and local of the call
\* belongs to its frame
Switch ==
    /\ pc' = suspended.pc
    /\ parsed_resume' = suspended.parsed_resume
    /\ job_description' = suspended.job_description
    /\ arg_min_experience' = suspended.arg_min_experience
    /\ arg_education' = suspended.arg_education
    /\ job_requirements' = suspended.job_requirements
    /\ skills_result' = suspended.skills_result
    /\ experience_result' = suspended.experience_result
    /\ education_result' = suspended.education_result
    /\ keywords_result' = suspended.keywords_result
    /\ summary_result' = suspended.summary_result
    /\ exc' = suspended.exc
    /\ result' = suspended.result
    /\ escaped' = suspended.escaped
    /\ suspended' = Frame
    /\ UNCHANGED << weights, hash_seed, sim_vars, unit_vars, rest_vars >>

ThreadsInit ==
    /\ weights = DefaultWeights
    /\ hash_seed \in {0, 1}
    /\ Idle
    /\ SimIdle
    /\ suspended = IdleFrame
    /\ ScorerOnly
    /\ UnitIdle

ThreadsNext ==
    \/ ThreadCall \/ ParseJob \/ ScoreSkills \/ ScoreExperience \/ ScoreEducation
    \/ ScoreKeywords \/ ScoreSummary \/ Aggregate \/ Except \/ Return \/ Switch

ThreadsSpec == ThreadsInit /\ [][ThreadsNext]_vars

----------------------------------------------------------------------------
(* calculate_skill_similarity on its own: the arguments are drawn at the   *)
(* start and one action applies the function.                              *)

SkillStrings ==
    { "", "python", "Python", "PYTHON", "react", "react.js", "React.JS", "trace",
      "perl", "kepler", "tailors", "algorithms", "machine learning",
      "learning machine", "deep learning" }

SimInit ==
    /\ weights = DefaultWeights
    /\ hash_seed = 0
    /\ Idle
    /\ skill1 \in SkillStrings
    /\ skill2 \in SkillStrings
    /\ sim_pc = "call"
    /\ similarity = None
    /\ SingleThread
    /\ ScorerOnly
    /\ UnitIdle

ComputeSimilarity ==
    /\ sim_pc = "call"
    /\ similarity' = calculate_skill_similarity(skill1, skill2)
    /\ sim_pc' = "done"
    /\ UNCHANGED << score_vars, skill1, skill2, suspended, unit_vars, rest_vars >>

SimNext == ComputeSimilarity

SimSpec == SimInit /\ [][SimNext]_vars

----------------------------------------------------------------------------
(* The scoring functions called directly, one call per behaviour: the      *)
(* arguments are drawn at the start and one action applies one function.   *)

\* resumes beyond those of ResumeRecords: more years than any requirement of
\* the model, education entries above and below the required levels, and
\* skills lists with a blank entry or with letters no job skill uses
ScorerResumes ==
    ResumeRecords
    \cup { [EmptyResume EXCEPT !.skills = ListV(s)] :
             s \in { << "  " >>, << "zzz" >> } }
    \cup { [EmptyResume EXCEPT !.total_experience_years = NumV(y)] :
             y \in { MaxYears + 1, MaxYears + 9 } }
    \cup { [EmptyResume EXCEPT !.education = ListV(<< e >>)] :
             e \in { [institution |-> "MIT", context |-> "PhD in physics"],
                     [institution |-> "city high school", context |-> ""] } }

ScorerArguments == CallArguments \cup { << None, StrV("PhD") >> }

ScorerInputs ==
    { [resume |-> r, job_description |-> j,
       job_requirements |-> requirements(j, a[1], a[2])] :
        r \in ScorerResumes, j \in JobDescriptions, a \in ScorerArguments }

ScorerInit ==
    /\ weights = DefaultWeights
    /\ hash_seed \in {0, 1}
    /\ Idle
    /\ SimIdle
    /\ SingleThread
    /\ ScorerOnly
    /\ unit_pc = "call"
    /\ unit_fn = ""
    /\ unit_input \in ScorerInputs
    /\ unit_output = None

\* the direct call of fn returns (or raises) out
ApplyUnit(fn, out) ==
    /\ unit_pc = "call"
    /\ unit_fn' = fn
    /\ unit_output' = out
    /\ unit_pc' = "done"
    /\ UNCHANGED << score_vars, sim_vars, suspended, unit_input, rest_vars >>

CallScoreSkills ==
    ApplyUnit("score_skills_direct_match",
              score_skills_direct_match(unit_input.resume, unit_input.job_description,
                                        hash_seed))

CallScoreExperience ==
    ApplyUnit("_score_experience",
              score_experience(unit_input.resume, unit_input.job_requirements))

CallScoreEducation ==
    ApplyUnit("_score_education",
              score_education(unit_input.resume, unit_input.job_requirements))

CallScoreKeywords ==
    ApplyUnit("_score_keywords",
              score_keywords(unit_input.resume, unit_input.job_description))

CallScoreSummary ==
    ApplyUnit("_score_summary",
              score_summary(unit_input.resume, unit_input.job_description))

ScorerNext ==
    \/ CallScoreSkills \/ CallScoreExperience \/ CallScoreEducation
    \/ CallScoreKeywords \/ CallScoreSummary

ScorerSpec == ScorerInit /\ [][ScorerNext]_vars

----------------------------------------------------------------------------
(* _parse_job_description_simple called directly on texts that state       *)
(* several requirements, in either order.                                  *)

MaxParseLines == 2

ParseLines ==
    { "2 years of experience", "5 years of experience", "minimum 4 years",
      "2 years in java and 7 years with sql", "bachelor degree",
      "master degree or phd", "diploma" }

\* up to MaxParseLines different lines, in any order, joined by newlines
ParseTexts ==
    { Join("\n", s) :
        s \in { q \in UNION { [1..n -> ParseLines] : n \in 0..MaxParseLines } :
                  \A i, j \in DOMAIN q : i # j => q[i] # q[j] } }

ParseInit ==
    /\ weights = DefaultWeights
    /\ hash_seed \in {0, 1}
    /\ Idle
    /\ SimIdle
    /\ SingleThread
    /\ ScorerOnly
    /\ unit_pc = "call"
    /\ unit_fn = ""
    /\ unit_input \in ParseTexts
    /\ unit_output = None

CallParse ==
    ApplyUnit("_parse_job_description_simple",
              Ok(parse_job_description_simple(unit_input)))

ParseNext == CallParse

ParseSpec == ParseInit /\ [][ParseNext]_vars

----------------------------------------------------------------------------
(* calculate_match_score called with all six of its arguments.             *)

\* values for required_skills and preferred_skills
SkillsArguments == { None, ListV(<< "react", "perl" >>) }

MatchCalls ==
    [parsed_resume : ThreadResumes,
     job_description : JobDescriptions,
     required_skills : SkillsArguments,
     preferred_skills : SkillsArguments,
     min_experience : { None, NumV(0), NumV(MaxYears + 2) },
     education_requirement : { None, StrV(""), StrV("Master") }]

ArgumentsInit ==
    /\ weights = DefaultWeights
    /\ hash_seed \in {0, 1}
    /\ Idle
    /\ SimIdle
    /\ SingleThread
    /\ ScorerOnly
    /\ unit_pc = "call"
    /\ unit_fn = ""
    /\ unit_input \in MatchCalls
    /\ unit_output = None

\* a mutation: the required skills are scored as one more bullet line of
\* the job description
EnterMatchScore_required_appended ==
    /\ unit_pc = "call"
    /\ Enter(unit_input.parsed_resume,
             IF unit_input.required_skills = None THEN unit_input.job_description
             ELSE unit_input.job_description \o "\n- "
                  \o Join(" ", unit_input.required_skills.items),
             unit_input.min_experience, unit_input.education_requirement)
    /\ unit_pc' = "running"
    /\ UNCHANGED << unit_fn, unit_input, unit_output, rest_vars >>

\* calculate_match_score(parsed_resume, job_description, required_skills,
\* preferred_skills, min_experience, education_requirement) is entered: the
\* body names neither required_skills nor preferred_skills
EnterMatchScore ==
    /\ unit_pc = "call"
    /\ Enter(unit_input.parsed_resume, unit_input.job_description,
             unit_input.min_experience, unit_input.education_requirement)
    /\ unit_pc' = "running"
    /\ UNCHANGED << unit_fn, unit_input, unit_output, rest_vars >>

\* the call returns its MatchResult
LeaveMatchScore ==
    /\ unit_pc = "running"
    /\ Leave
    /\ unit_fn' = "calculate_match_score"
    /\ unit_output' = Ok(result)
    /\ unit_pc' = "done"
    /\ UNCHANGED << unit_input, rest_vars >>

ArgumentsNext ==
    \/ EnterMatchScore \/ ParseJob \/ ScoreSkills \/ ScoreExperience
    \/ ScoreEducation \/ ScoreKeywords \/ ScoreSummary \/ Aggregate \/ Except
    \/ LeaveMatchScore

ArgumentsSpec == ArgumentsInit /\ [][ArgumentsNext]_vars

----------------------------------------------------------------------------
(* _clean_tokens called directly on short token lists.                     *)

MaxTokens == 2

CleanWords ==
    { "python", "sql", "experience", "skills", "years", "the", "and", "go",
      "c3po" }

CleanInputs == UNION { [1..n -> CleanWords] : n \in 0..MaxTokens }

CleanInit ==
    /\ weights = DefaultWeights
    /\ hash_seed \in {0, 1}
    /\ Idle
    /\ SimIdle
    /\ SingleThread
    /\ ScorerOnly
    /\ unit_pc = "call"
    /\ unit_fn = ""
    /\ unit_input \in CleanInputs
    /\ unit_output = None

CallCleanTokens == ApplyUnit("_clean_tokens", Ok(clean_tokens(unit_input)))

CleanNext == CallCleanTokens

CleanSpec == CleanInit /\ [][CleanNext]_vars

----------------------------------------------------------------------------
(* extract_skills_from_job_description called directly.                    *)

MaxExtractLines == 2

ExtractLines ==
    { "- Python and SQL", "- react perl algorithms", "- 2023",
      "- build data pipelines in rust", "uses AWS daily", "* Go or C" }

\* up to MaxExtractLines different lines, in any order, joined by newlines
ExtractTexts ==
    { Join("\n", s) :
        s \in { q \in UNION { [1..n -> ExtractLines] : n \in 0..MaxExtractLines } :
                  \A i, j \in DOMAIN q : i # j => q[i] # q[j] } }

ExtractInit ==
    /\ weights = DefaultWeights
    /\ hash_seed \in {0, 1}
    /\ Idle
    /\ SimIdle
    /\ SingleThread
    /\ ScorerOnly
    /\ unit_pc = "call"
    /\ unit_fn = ""
    /\ unit_input \in ExtractTexts
    /\ unit_output = None

CallExtractJobSkills ==
    ApplyUnit("extract_skills_from_job_description",
              Ok(extract_skills_from_job_description(unit_input, hash_seed)))

ExtractNext == CallExtractJobSkills

ExtractSpec == ExtractInit /\ [][ExtractNext]_vars

----------------------------------------------------------------------------
(* DataStore (src/data_store.py): three tables with AUTOINCREMENT ids. A   *)
(* table is the sequence of its rows, a row's id its position; no method   *)
(* deletes a row. The constructor opens the connection and never sets      *)
(* PRAGMA foreign_keys, so whether the declared keys are enforced is the   *)
(* SQLite library's default: off unless the library was built otherwise.   *)

MaxRows == 2

StoreIds == 1..MaxRows

StoreInit ==
    /\ weights = DefaultWeights
    /\ hash_seed = 0
    /\ Idle
    /\ SimIdle
    /\ SingleThread
    /\ UnitIdle
    /\ NoRun
    /\ foreign_keys \in BOOLEAN
    /\ resumes = << >>
    /\ job_descriptions = << >>
    /\ analyses = << >>

\* add_resume: INSERT INTO resumes, returns cur.lastrowid
add_resume ==
    /\ Len(resumes) < MaxRows
    /\ resumes' = Append(resumes, [id |-> Len(resumes) + 1])
    /\ UNCHANGED << score_vars, sim_vars, suspended, unit_vars, run_vars,
                    foreign_keys, job_descriptions, analyses >>

\* add_job_description: INSERT INTO job_descriptions
add_job_description ==
    /\ Len(job_descriptions) < MaxRows
    /\ job_descriptions' = Append(job_descriptions, [id |-> Len(job_descriptions) + 1])
    /\ UNCHANGED << score_vars, sim_vars, suspended, unit_vars, run_vars,
                    foreign_keys, resumes, analyses >>

\* the INSERT INTO analyses is refused (sqlite3.IntegrityError)
KeysRefused(resume_id, jd_id) ==
    /\ foreign_keys
    /\ resume_id \notin DOMAIN resumes \/ jd_id \notin DOMAIN job_descriptions

\* add_analysis(match_result, resume_id, jd_id): the ids are the caller's
add_analysis ==
    /\ Len(analyses) < MaxRows
    /\ \E resume_id \in StoreIds, jd_id \in StoreIds :
          analyses' = IF KeysRefused(resume_id, jd_id) THEN analyses
                      ELSE Append(analyses, [id |-> Len(analyses) + 1,
                                             resume_id |-> resume_id,
                                             jd_id |-> jd_id])
    /\ UNCHANGED << score_vars, sim_vars, suspended, unit_vars, run_vars,
                    foreign_keys, resumes, job_descriptions >>

StoreNext == add_resume \/ add_job_description \/ add_analysis

StoreSpec == StoreInit /\ [][StoreNext]_vars

----------------------------------------------------------------------------
(* ReportGenerator (src/report_gen.py): the quality band and the hiring    *)
(* recommendation of an overall score.                                     *)

\* quality_levels.items(), in the dict's insertion order
quality_levels ==
    << << 85, 100, "Excellent Match" >>,
       << 70, 84, "Good Match" >>,
       << 55, 69, "Moderate Match" >>,
       << 40, 54, "Weak Match" >>,
       << 0, 39, "Poor Match" >> >>

\* _get_quality_level: the first level with min_score <= score <= max_score
get_quality_level(score) ==
    LET fits == { i \in 1..Len(quality_levels) :
                    /\ RLe(Num(quality_levels[i][1]), score)
                    /\ RLe(score, Num(quality_levels[i][2])) }
    IN  IF fits = {} THEN << 0, 39, "Poor Match" >>
        ELSE quality_levels[CHOOSE i \in fits : \A j \in fits : i <= j]

get_hiring_recommendation(score) ==
    IF RGe(score, Num(85)) THEN "STRONG HIRE - Excellent candidate match"
    ELSE IF RGe(score, Num(70)) THEN "HIRE - Good candidate with minor gaps"
    ELSE IF RGe(score, Num(55)) THEN "CONDITIONAL HIRE - Consider with reservations"
    ELSE IF RGe(score, Num(40)) THEN "WEAK CANDIDATE - High risk hire"
    ELSE "DO NOT HIRE - Poor fit for position"

\* the overall scores of a MatchResult: 0 to 100 in hundredths
OverallScores == { Rat(k, 100) : k \in 0..10000 }

ReportInit ==
    /\ weights = DefaultWeights
    /\ hash_seed = 0
    /\ Idle
    /\ SimIdle
    /\ SingleThread
    /\ ScorerOnly
    /\ unit_pc = "call"
    /\ unit_fn = ""
    /\ unit_input \in OverallScores
    /\ unit_output = None

CallQualityLevel ==
    ApplyUnit("_get_quality_level", Ok(get_quality_level(unit_input)))

CallHiringRecommendation ==
    ApplyUnit("_get_hiring_recommendation", Ok(get_hiring_recommendation(unit_input)))

ReportNext == CallQualityLevel \/ CallHiringRecommendation

ReportSpec == ReportInit /\ [][ReportNext]_vars

----------------------------------------------------------------------------
(* _run_full_analysis (src/main.py and src/ui_app.py): parse, score,       *)
(* visualise, report, delete the temporary file, return. A dict is the set *)
(* of its keys. Each of parse_resume, calculate_match_score,               *)
(* create_comprehensive_dashboard and generate_comprehensive_report        *)
(* catches every exception in its own body; what can raise inside a step   *)
(* is the construction ResumeScorer(), when the stop-word corpus cannot be *)
(* loaded (src/scoring.py:69-74).                                          *)

DictV(keys) == [tag |-> "dict", keys |-> keys]

\* ResumeParser.parse_resume's record for a file it could not parse:
\* {'error': ..., 'file_name': ...}; every field the scorer reads is missing
ParseErrorRecord ==
    [skills |-> Absent, summary |-> Absent, experience |-> Absent,
     education |-> Absent, raw_text |-> Absent, total_experience_years |-> Absent,
     error |-> StrV("Unsupported file format"), file_name |-> StrV("resume.xyz")]

\* ResumeParser.parse_resume
parse_resume(file) == IF file.parsable THEN file.content ELSE ParseErrorRecord

DashboardKeys ==
    { "gauge", "radar", "skills_matrix", "breakdown", "experience",
      "recommendations", "distribution" }

ReportKeys ==
    { "executive_summary", "detailed_analysis", "hiring_recommendation",
      "interview_guide", "feedback_report", "full_report" }

\* class DummyMatchResult: overall_score: int = 0
DummyMatchResult == [overall_score |-> Num(0)]

ResumeFiles ==
    { [parsable |-> TRUE, content |-> BaselineResume],
      [parsable |-> TRUE, content |-> [BaselineResume EXCEPT !.skills = ListV(<< >>)]],
      \* _extract_summary found no summary: 'summary': None
      [parsable |-> TRUE, content |-> [BaselineResume EXCEPT !.summary = None]],
      [parsable |-> FALSE, content |-> None] }

RunInit ==
    /\ weights = DefaultWeights
    /\ hash_seed \in {0, 1}
    /\ Idle
    /\ SimIdle
    /\ SingleThread
    /\ NoStore
    /\ UnitIdle
    /\ variant \in { "main", "ui_app" }
    /\ run_pc = "parse"
    /\ stopwords_loadable \in BOOLEAN
    /\ resume_path \in ResumeFiles
    /\ tmp_file = "present"
    /\ job_desc \in JobDescriptions
    /\ run_parsed_resume = None /\ run_match_result = None
    /\ dashboard = None /\ reports = None /\ run_exc = None
    /\ run_log = << >>

RunFrame == << score_vars, sim_vars, suspended, unit_vars, store_vars, variant,
               stopwords_loadable, resume_path, job_desc >>

\* 1: parsed_resume = ResumeParser().parse_resume(resume_path)
RunParse ==
    /\ run_pc = "parse"
    /\ run_log' = Append(run_log, "parse")
    /\ run_parsed_resume' = parse_resume(resume_path)
    /\ run_pc' = "score"
    /\ UNCHANGED << RunFrame, tmp_file, run_match_result, dashboard, reports, run_exc >>

RunLocals == << variant, stopwords_loadable, resume_path, job_desc, tmp_file,
               run_parsed_resume, dashboard, reports >>

\* 2: scorer = ResumeScorer(): the constructor raises LookupError when the
\* stop-word corpus cannot be loaded. main.py has no handler around this
\* step: the exception leaves the function
RunScorerFails ==
    /\ run_pc = "score"
    /\ ~stopwords_loadable
    /\ run_log' = Append(run_log, "score")
    /\ run_exc' = StrV("Resource stopwords not found")
    /\ run_pc' = IF variant = "ui_app" THEN "except" ELSE "raised"
    /\ UNCHANGED << score_vars, sim_vars, suspended, unit_vars, store_vars,
                    RunLocals, run_match_result >>

\* 2: scorer.calculate_match_score(parsed_resume, job_desc) is entered
RunScore ==
    /\ run_pc = "score"
    /\ stopwords_loadable
    /\ run_log' = Append(run_log, "score")
    /\ Enter(run_parsed_resume, job_desc, None, None)
    /\ run_pc' = "scoring"
    /\ UNCHANGED << unit_vars, store_vars, RunLocals, run_match_result, run_exc >>

\* match_result = the MatchResult the call returns
RunScored ==
    /\ run_pc = "scoring"
    /\ Leave
    /\ run_match_result' = result
    /\ run_pc' = "visualise"
    /\ UNCHANGED << unit_vars, store_vars, RunLocals, run_exc, run_log >>

\* 3: dashboard = ResumeVisualizer().create_comprehensive_dashboard(..)
RunVisualise ==
    /\ run_pc = "visualise"
    /\ run_log' = Append(run_log, "visualise")
    /\ dashboard' = DictV(DashboardKeys)
    /\ run_pc' = "report"
    /\ UNCHANGED << RunFrame, tmp_file, run_parsed_resume, run_match_result,
                    reports, run_exc >>

\* 4: reports = ReportGenerator().generate_comprehensive_report(..)
RunReport ==
    /\ run_pc = "report"
    /\ run_log' = Append(run_log, "report")
    /\ reports' = DictV(ReportKeys)
    /\ run_pc' = "cleanup"
    /\ UNCHANGED << RunFrame, tmp_file, run_parsed_resume, run_match_result,
                    dashboard, run_exc >>

\* ui_app.py only: except Exception: the error report and the default values
RunExcept ==
    /\ run_pc = "except"
    /\ reports' = DictV({ "error" })
    /\ run_parsed_resume' =
         IF run_parsed_resume = None THEN EmptyResume ELSE run_parsed_resume
    /\ run_match_result' =
         IF run_match_result = None THEN DummyMatchResult ELSE run_match_result
    /\ dashboard' = IF dashboard = None THEN DictV({}) ELSE dashboard
    /\ run_pc' = "cleanup"
    /\ UNCHANGED << RunFrame, tmp_file, run_exc, run_log >>

\* resume_path.unlink(missing_ok=True), an exception of which is passed over
RunCleanup ==
    /\ run_pc = "cleanup"
    /\ run_log' = Append(run_log, "unlink")
    /\ tmp_file' \in { "deleted", "present" }
    /\ run_pc' = "return"
    /\ UNCHANGED << RunFrame, run_parsed_resume, run_match_result, dashboard,
                    reports, run_exc >>

\* return parsed_resume, match_result, dashboard, reports
RunReturn ==
    /\ run_pc = "return"
    /\ run_pc' = "returned"
    /\ UNCHANGED << RunFrame, tmp_file, run_parsed_resume, run_match_result,
                    dashboard, reports, run_exc, run_log >>

RunNext ==
    \/ RunParse \/ RunScorerFails \/ RunScore \/ ParseJob \/ ScoreSkills
    \/ ScoreExperience \/ ScoreEducation \/ ScoreKeywords \/ ScoreSummary
    \/ Aggregate \/ Except \/ RunScored \/ RunVisualise \/ RunReport
    \/ RunExcept \/ RunCleanup \/ RunReturn

RunSpec == RunInit /\ [][RunNext]_vars

----------------------------------------------------------------------------
(* Properties of calculate_match_score.                                    *)

InRange(x) == RLe(Num(0), x) /\ RLe(x, Num(100))
NoDuplicates(seq) == Cardinality(Range(seq)) = Len(seq)

\* the job skills of the call in progress, as the extractor returns them
JobSkills == Range(extract_skills_from_job_description(job_description, hash_seed))

\* the resume skills of the call in progress
ResumeSkills == extract_skills_from_resume(parsed_resume).v

\* matched and missing split the set S: no duplicates, disjoint, union S
Partitions(matched, missing, S) ==
    /\ NoDuplicates(matched)
    /\ NoDuplicates(missing)
    /\ Range(matched) \cap Range(missing) = {}
    /\ Range(matched) \cup Range(missing) = S

\* the call returned without any step raising
ReturnedNormally == pc = "done" /\ exc = None

\* score_skills_direct_match has just returned its result
SkillsScored == pc = "experience" /\ skills_result # None

\* every field of the resume is missing, None, empty or a value of its type
MissingOrWellTyped(r) ==
    /\ r.skills.tag \in {"absent", "none", "list"}
    /\ r.summary.tag \in {"absent", "none", "str"}
    /\ r.experience.tag \in {"absent", "none", "list"}
    /\ r.education.tag \in {"absent", "none", "list"}
    /\ r.raw_text.tag \in {"absent", "none", "str"}
    /\ r.total_experience_years.tag \in {"absent", "none", "num"}

\* C1: for every input, weights of five non-negative numbers of any sum
\* included, the overall score and the five component scores of the result
\* lie in [0, 100].
C1_ScoresWithinRange ==
    pc = "done" =>
        /\ InRange(result.overall_score)
        /\ InRange(result.skills_score)
        /\ InRange(result.experience_score)
        /\ InRange(result.education_score)
        /\ InRange(result.keywords_score)
        /\ InRange(result.summary_score)

\* C2 as stated: in every result of score_skills_direct_match and of
\* calculate_match_score, matched_skills and missing_skills are disjoint,
\* duplicate-free and together exactly the extracted job skills.
C2_PartitionInEveryResult ==
    /\ SkillsScored =>
           Partitions(skills_result.matched, skills_result.missing, JobSkills)
    /\ pc = "done" =>
           Partitions(result.matched_skills, result.missing_skills, JobSkills)

\* C2 as amended: the partition holds in every result of
\* score_skills_direct_match and in every result of calculate_match_score
\* that is not the error sentinel.
C2_PartitionInNormalResult ==
    /\ SkillsScored =>
           Partitions(skills_result.matched, skills_result.missing, JobSkills)
    /\ ReturnedNormally =>
           Partitions(result.matched_skills, result.missing_skills, JobSkills)

\* a normal result with job skills on both sides of the partition
C2_Witness ==
    /\ ReturnedNormally
    /\ result.matched_skills # << >>
    /\ result.missing_skills # << >>

\* C3: a resume whose fields are any mix of absent, empty or None gets a
\* normal result, never the error sentinel.
C3_GracefulOnMissingFields ==
    (pc = "done" /\ weights.ok /\ MissingOrWellTyped(parsed_resume)) =>
        /\ exc = None
        /\ result # create_error_result(IF exc = None THEN "" ELSE exc.msg)

\* C4: when a step of calculate_match_score raises, nothing propagates to the
\* caller and the result has every score 0, empty skill lists, gap 0 and one
\* recommendation, which contains the error description.
C4_ErrorSentinel ==
    /\ pc = "except" => ~escaped /\ exc # None
    /\ pc = "done" => ~escaped /\ result # None
    /\ (pc = "done" /\ exc # None) =>
           /\ result.overall_score = Num(0)
           /\ result.skills_score = Num(0)
           /\ result.experience_score = Num(0)
           /\ result.education_score = Num(0)
           /\ result.keywords_score = Num(0)
           /\ result.summary_score = Num(0)
           /\ result.matched_skills = << >>
           /\ result.missing_skills = << >>
           /\ result.experience_gap = 0
           /\ Len(result.recommendations) = 1
           /\ exc.msg # ""
           /\ IsSubstr(exc.msg, result.recommendations[1])

\* the malformed weights object made the aggregation raise
C4_Witness ==
    /\ pc = "done"
    /\ ~weights.ok
    /\ summary_result # None
    /\ exc # None

\* C5: none of the four component scorers raises: once the skills are scored
\* no exception leaves _score_experience, _score_education, _score_keywords
\* or _score_summary, so the other components are still computed.
C5_ScorersNeverRaise ==
    ~(pc = "except" /\ skills_result # None /\ summary_result = None)

\* C6: with an empty job description, default arguments and any resume, the
\* call returns skills 50 with empty skill lists, experience 75, education 75,
\* keywords 50 and summary 50.
C6_EmptyJobDescription ==
    (/\ pc = "done"
     /\ job_description = ""
     /\ weights.ok
     /\ arg_min_experience = None
     /\ arg_education = None) =>
        /\ exc = None
        /\ result.skills_score = Num(50)
        /\ result.matched_skills = << >>
        /\ result.missing_skills = << >>
        /\ result.experience_score = Num(75)
        /\ result.education_score = Num(75)
        /\ result.keywords_score = Num(50)
        /\ result.summary_score = Num(50)

\* the messages of the five conditions, in the order they are tested
ConditionMessages ==
    << SkillsGapMessage(skills_result.missing),
       ExperienceGapMessage(experience_result.gap),
       EducationMessage, KeywordsMessage, SummaryMessage >>

\* the four conditions the claims and the code agree on
ExperienceCondition ==
    RLt(experience_result.score, Num(60)) /\ experience_result.gap # 0
EducationCondition == RLt(education_result.score, Num(60))
KeywordsCondition == RLt(keywords_result.score, Num(50))
SummaryCondition == RLt(summary_result.score, Num(50))

\* the messages whose flag is set, in order; the fallback when none is
MessagesOf(flags) ==
    LET chosen == SelectSeq(<< 1, 2, 3, 4, 5 >>, LAMBDA i : flags[i])
    IN  IF chosen = << >> THEN << FallbackMessage >>
        ELSE [k \in 1..Len(chosen) |-> ConditionMessages[chosen[k]]]

\* C7 as stated: the recommendations of a non-error result are, in order,
\* the messages of the conditions skills < 60, experience < 60 with a gap,
\* education < 60, keywords < 50, summary < 50 that hold.
C7_MessagePerThreshold ==
    ReturnedNormally =>
        result.recommendations =
            MessagesOf(<< RLt(skills_result.score, Num(60)), ExperienceCondition,
                          EducationCondition, KeywordsCondition, SummaryCondition >>)

\* C7 as amended: the skills condition is skills < 60 with at least one
\* missing skill; with skills 40, experience 80, education 90, keywords 80
\* and summary 80 the skills-gap message is the only recommendation.
C7_MessagePerCondition ==
    /\ ReturnedNormally =>
           result.recommendations =
               MessagesOf(<< RLt(skills_result.score, Num(60))
                                 /\ skills_result.missing # << >>,
                             ExperienceCondition, EducationCondition,
                             KeywordsCondition, SummaryCondition >>)
    /\ generate_recommendations([score |-> Num(40), missing |-> << "javascript" >>],
                                [score |-> Num(80), gap |-> 0], [score |-> Num(90)],
                                [score |-> Num(80)], [score |-> Num(80)])
           = << "Skills gap identified. Missing 1 key skills: javascript" >>

\* a normal result whose recommendations start with the skills-gap message
\* and go on with two more
C7_Witness ==
    /\ ReturnedNormally
    /\ Len(result.recommendations) >= 3
    /\ result.recommendations[1] = SkillsGapMessage(result.missing_skills)

\* the component values the recommendations of the returned result rest on:
\* the scorers' values, or the zeros of the error sentinel
Graded ==
    IF exc = None
    THEN [skills |-> skills_result.score, missing |-> skills_result.missing,
          experience |-> experience_result.score, gap |-> experience_result.gap,
          education |-> education_result.score, keywords |-> keywords_result.score,
          summary |-> summary_result.score]
    ELSE [skills |-> result.skills_score, missing |-> result.missing_skills,
          experience |-> result.experience_score, gap |-> result.experience_gap,
          education |-> result.education_score, keywords |-> result.keywords_score,
          summary |-> result.summary_score]

OtherGapFound ==
    \/ RLt(Graded.experience, Num(60)) /\ Graded.gap # 0
    \/ RLt(Graded.education, Num(60))
    \/ RLt(Graded.keywords, Num(50))
    \/ RLt(Graded.summary, Num(50))

FallbackShape(gapFound) ==
    /\ result.recommendations # << >>
    /\ (FallbackMessage \in Range(result.recommendations)) <=> ~gapFound
    /\ FallbackMessage \in Range(result.recommendations) =>
           result.recommendations = << FallbackMessage >>

\* C8 as stated: every result has recommendations, and the fallback string is
\* there, alone, exactly when none of skills < 60, experience < 60 with a gap,
\* education < 60, keywords < 50, summary < 50 holds.
C8_FallbackIffNoThreshold ==
    pc = "done" => FallbackShape(RLt(Graded.skills, Num(60)) \/ OtherGapFound)

\* C8 as amended: the skills condition is skills < 60 with at least one
\* missing skill (the scores being the scorers' values before rounding).
C8_FallbackIffNoCondition ==
    pc = "done" =>
        FallbackShape((RLt(Graded.skills, Num(60)) /\ Graded.missing # << >>)
                      \/ OtherGapFound)

\* a result with job skills matched and the fallback as its recommendation
C8_Witness ==
    /\ ReturnedNormally
    /\ result.matched_skills # << >>
    /\ result.recommendations = << FallbackMessage >>

\* C10: a job skill is in matched_skills exactly when some resume skill is
\* similar to it by 0.7 or more, and in missing_skills otherwise (also when
\* there is no resume skill).
C10_MatchedIffThreshold ==
    (SkillsScored /\ JobSkills # {}) =>
        \A s \in JobSkills :
            LET close == \E r \in ResumeSkills :
                            RGe(calculate_skill_similarity(s, r), << 7, 10 >>)
            IN  /\ s \in Range(skills_result.matched) <=> close
                /\ s \in Range(skills_result.missing) <=> ~close

\* a job skill matched at a similarity of exactly 0.7, next to a missing one
C10_Witness ==
    /\ SkillsScored
    /\ skills_result.missing # << >>
    /\ \E s \in Range(skills_result.matched) :
          best_similarity(s, ResumeSkills) = << 7, 10 >>

----------------------------------------------------------------------------
(* Properties of calculate_skill_similarity.                               *)

\* C9: the similarity is in [0, 1], is 1.0 for strings equal up to case, 0.9
\* for different strings one of which contains the other, and is the same in
\* both argument orders.
C9_SimilarityContract ==
    sim_pc = "done" =>
        /\ RLe(Num(0), similarity) /\ RLe(similarity, Num(1))
        /\ Lower(skill1) = Lower(skill2) => similarity = << 1, 1 >>
        /\ (/\ Lower(skill1) # Lower(skill2)
            /\ \/ IsSubstr(Lower(skill1), Lower(skill2))
               \/ IsSubstr(Lower(skill2), Lower(skill1))) => similarity = << 9, 10 >>
        /\ similarity = calculate_skill_similarity(skill2, skill1)

\* sim("react.js", "react") = 0.9
C9_Witness ==
    /\ sim_pc = "done"
    /\ skill1 = "react.js"
    /\ skill2 = "react"
    /\ similarity = << 9, 10 >>

\* C24: the similarity is 1.0 only for strings equal ignoring case; two
\* different skills neither of which contains the other (anagrams included)
\* score strictly less than 1.0.
C24_OneOnlyForEqualSkills ==
    (sim_pc = "done" /\ Lower(skill1) # Lower(skill2)) =>
        RLt(similarity, Num(1))

\* r is x rounded to 2 decimals: a whole number of hundredths, at most half a
\* hundredth from x, the even one when x is half-way
IsRoundedTo2(x, r) ==
    /\ (100 * r[1]) % r[2] = 0
    /\ LET k == (100 * r[1]) \div r[2]
           twice_off == Abs(2 * k * x[2] - 200 * x[1])
       IN  /\ twice_off <= x[2]
           /\ twice_off = x[2] => k % 2 = 0

\* the weighted sum of the component scores the scorers returned in this call
WeightedSum ==
    RAdd(RMul(skills_result.score, Rat(weights.skills_weight, 100)),
    RAdd(RMul(experience_result.score, Rat(weights.experience_weight, 100)),
    RAdd(RMul(education_result.score, Rat(weights.education_weight, 100)),
    RAdd(RMul(keywords_result.score, Rat(weights.keywords_weight, 100)),
         RMul(summary_result.score, Rat(weights.summary_weight, 100))))))

\* C12: in a non-error result overall_score is the weighted sum of the
\* unrounded component scores of the call, rounded to 2 decimals, and each
\* reported component score is the component's value rounded to 2 decimals.
C12_OverallIsRoundedWeightedSum ==
    ReturnedNormally =>
        /\ IsRoundedTo2(WeightedSum, result.overall_score)
        /\ IsRoundedTo2(skills_result.score, result.skills_score)
        /\ IsRoundedTo2(experience_result.score, result.experience_score)
        /\ IsRoundedTo2(education_result.score, result.education_score)
        /\ IsRoundedTo2(keywords_result.score, result.keywords_score)
        /\ IsRoundedTo2(summary_result.score, result.summary_score)

\* a result under the default weights in which the rounding changed both the
\* overall score and a component score
C12_Witness ==
    /\ ReturnedNormally
    /\ weights = DefaultWeights
    /\ result.overall_score # WeightedSum
    /\ result.skills_score # skills_result.score
    /\ RGt(result.overall_score, Num(0))

\* C13: the result of a call depends on nothing but its arguments and the
\* scorer's configuration: the same call made again, in this process or in
\* one with another string-hash seed, returns the same MatchResult in every
\* field, the order of the skill lists included.
C13_SameResultEveryTime ==
    pc = "done" =>
        \A seed \in {0, 1} :
            result = calculate_match_score(parsed_resume, job_description,
                                           arg_min_experience, arg_education,
                                           weights, seed)

\* debug_info says something about the topic: in the name of one of its
\* entries or in its reason text
DebugMentions(topic) ==
    \/ \E key \in DOMAIN result.debug_info : IsSubstr(topic, key)
    \/ /\ "reason" \in DOMAIN result.debug_info
       /\ IsSubstr(topic, Lower(result.debug_info.reason))

NoSkillsMarker ==
    /\ "reason" \in DOMAIN result.debug_info
    /\ result.debug_info.reason = "No skills extracted from job description"
    /\ result.debug_info.job_skills_found = 0

\* C18: debug_info tells each zero-signal condition from a poor match: it
\* carries the no-skills reason with job_skills_found = 0 exactly when no job
\* skill was extracted, and it marks a summary score and an education score
\* that are defaults for missing data.
C18_ZeroSignalsMarked ==
    ReturnedNormally =>
        /\ NoSkillsMarker <=> JobSkills = {}
        /\ Get(parsed_resume.summary, StrV("")) \in { None, StrV("") } =>
               DebugMentions("summary")
        /\ (/\ Get(parsed_resume.education, ListV(<< >>)) \in { None, ListV(<< >>) }
            /\ ~Falsy(job_requirements.education_requirement)) =>
               DebugMentions("education")

\* a step of the running call, from its first statement to its return value
CallStep == pc # "idle" /\ pc' # "idle" /\ suspended' = suspended

\* C19: calls of two threads on one scorer, interleaved in any way: no step
\* changes the scorer's weights (its word tables are constants), the running
\* call leaves its resume record as it was, and each call returns the
\* MatchResult it returns when run alone.
C19_ThreadsDoNotInterfere ==
    [][/\ weights' = weights
       /\ CallStep => parsed_resume' = parsed_resume
       /\ pc' = "done" =>
            result' = calculate_match_score(parsed_resume', job_description',
                                            arg_min_experience', arg_education',
                                            weights', hash_seed')]_vars

\* one call returns while the other thread's call, on another resume and
\* another job description, is between two of its scoring steps
C19_Witness ==
    /\ ReturnedNormally
    /\ suspended.pc \in { "experience", "education", "keywords", "summary" }
    /\ suspended.parsed_resume # parsed_resume
    /\ suspended.job_description # job_description

----------------------------------------------------------------------------
(* Properties of the scoring functions called directly.                    *)

\* the direct call of fn has returned normally
Returned(fn) == unit_pc = "done" /\ unit_fn = fn /\ unit_output.ok

\* the job skills and the resume skills of the direct call's arguments
UnitJobSkills ==
    Range(extract_skills_from_job_description(unit_input.job_description, hash_seed))
UnitResumeSkills == extract_skills_from_resume(unit_input.resume).v

\* C11: with job skills, the skills score is
\* min(100, |matched| / |job| * 85 + min(15, |resume| / max(1, |job|) * 10)),
\* so a resume matching no job skill scores at most 15.
C11_SkillsScoreFormula ==
    (Returned("score_skills_direct_match") /\ UnitJobSkills # {}) =>
        LET m == Len(unit_output.v.matched)
            j == Cardinality(UnitJobSkills)
            r == Cardinality(UnitResumeSkills)
            bonus == IF r * 10 >= 15 * j THEN Num(15) ELSE Rat(r * 10, j)
            sum == RAdd(Rat(m * 85, j), bonus)
        IN  /\ unit_output.v.score = (IF RGt(sum, Num(100)) THEN Num(100) ELSE sum)
            /\ m = 0 => RLe(unit_output.v.score, Num(15))

\* no job skill matched and enough resume skills for the whole bonus of 15
C11_Witness ==
    /\ Returned("score_skills_direct_match")
    /\ UnitJobSkills # {}
    /\ unit_output.v.matched = << >>
    /\ unit_output.v.score = Num(15)

\* the years of the direct call's resume: 0 when missing or None
UnitYears ==
    LET y == unit_input.resume.total_experience_years
    IN  IF y.tag = "num" THEN y.n ELSE 0

\* C14: _score_experience returns 75 with gap 0 when no minimum is required;
\* min(100, 75 + min(25, 5 * surplus)), at least 75, with gap 0 when the
\* years meet the requirement; max(0, 75 - 15 * shortfall), below 75, with
\* the shortfall as gap otherwise. The gap is never negative.
C14_ExperienceScore ==
    Returned("_score_experience") =>
        LET required == unit_input.job_requirements.min_experience
            surplus == UnitYears - required
            score == unit_output.v.score
            gap == unit_output.v.gap
        IN  /\ gap >= 0
            /\ required = 0 => score = Num(75) /\ gap = 0
            /\ (required # 0 /\ surplus >= 0) =>
                   /\ score = Num(IF 5 * surplus >= 25 THEN 100 ELSE 75 + 5 * surplus)
                   /\ RGe(score, Num(75))
                   /\ gap = 0
            /\ (required # 0 /\ surplus < 0) =>
                   /\ score = Num(IF 15 * (-surplus) >= 75 THEN 0
                                  ELSE 75 - 15 * (-surplus))
                   /\ RLt(score, Num(75))
                   /\ gap = -surplus

\* one year more than the three required: score 80, gap 0
C14_Witness ==
    /\ Returned("_score_experience")
    /\ unit_input.job_requirements.min_experience = 3
    /\ UnitYears = 4
    /\ unit_output.v = [score |-> Num(80), gap |-> 0]

\* the education entries of the direct call's resume (none when missing)
UnitEducation ==
    LET e == unit_input.resume.education
    IN  IF e.tag = "list" THEN e.items ELSE << >>

\* C15: _score_education returns 75 without a requirement, 30 with a
\* requirement and no education entry, and otherwise, for the candidate's
\* highest level h and the required level r, min(100, 80 + 10 * (h - r)) when
\* h >= r and max(20, 80 - 20 * (r - h)) when h < r; always within [20, 100].
C15_EducationScore ==
    Returned("_score_education") =>
        LET required == unit_input.job_requirements.education_requirement
            score == unit_output.v.score
            h == highest_level(UnitEducation)
            r == education_hierarchy(Lower(required.s))
        IN  /\ RLe(Num(20), score) /\ RLe(score, Num(100))
            /\ required \in { None, StrV("") } => score = Num(75)
            /\ (required \notin { None, StrV("") } /\ UnitEducation = << >>) =>
                   score = Num(30)
            /\ (required \notin { None, StrV("") } /\ UnitEducation # << >> /\ h >= r) =>
                   score = Num(IF 80 + 10 * (h - r) > 100 THEN 100 ELSE 80 + 10 * (h - r))
            /\ (required \notin { None, StrV("") } /\ UnitEducation # << >> /\ h < r) =>
                   score = Num(IF 80 - 20 * (r - h) < 20 THEN 20 ELSE 80 - 20 * (r - h))

\* a bachelor degree required from the job text and a resume without any
\* education entry: the fixed low score 30
C15_Witness ==
    /\ Returned("_score_education")
    /\ unit_input.job_requirements.education_requirement = StrV("bachelor")
    /\ UnitEducation = << >>
    /\ unit_output.v.score = Num(30)

\* the cleaned tokens of a resume field holding a list of strings or of
\* records with a title (nothing when the field is missing)
FieldTokens(field, IsTitle) ==
    IF field.tag # "list" THEN {}
    ELSE UNION { TokenSet(Lower(IF IsTitle THEN field.items[i].title ELSE field.items[i])) :
                   i \in 1..Len(field.items) }

\* the cleaned tokens of the summary (nothing when it is missing or None)
SummaryTokens ==
    LET s == unit_input.resume.summary
    IN  IF s.tag = "str" THEN TokenSet(Lower(s.s)) ELSE {}

\* the cleaned tokens of the job description of the direct call
UnitJobTokens == TokenSet(Lower(unit_input.job_description))

\* C16: _score_keywords returns 50 when the job description has no cleaned
\* tokens, and otherwise min(100, 2 * 100 * |R \cap J| / |R \cup J|) for the
\* cleaned tokens R of the resume's skills, summary and experience titles and
\* J of the job description.
C16_KeywordsScore ==
    Returned("_score_keywords") =>
        LET R == FieldTokens(unit_input.resume.skills, FALSE) \cup SummaryTokens
                 \cup FieldTokens(unit_input.resume.experience, TRUE)
            J == UnitJobTokens
            jaccard2 == Rat(200 * Cardinality(R \cap J), Cardinality(R \cup J))
        IN  unit_output.v.score =
                (IF J = {} THEN Num(50)
                 ELSE IF RGt(jaccard2, Num(100)) THEN Num(100) ELSE jaccard2)

\* C17: _score_summary returns 50 when the resume has no summary (absent,
\* None or empty) and when the job description has no cleaned tokens, and
\* otherwise min(100, 3 * 100 * |S \cap J| / |J|) for the cleaned tokens S of
\* the summary and J of the job description.
C17_SummaryScore ==
    Returned("_score_summary") =>
        LET s == unit_input.resume.summary
            J == UnitJobTokens
            relevance3 == Rat(300 * Cardinality(SummaryTokens \cap J), Cardinality(J))
        IN  unit_output.v.score =
                (IF s.tag # "str" \/ s = StrV("") \/ J = {} THEN Num(50)
                 ELSE IF RGt(relevance3, Num(100)) THEN Num(100) ELSE relevance3)

\* a summary sharing one of the five job tokens: 3 * 100 * 1 / 5 = 60
C17_Witness ==
    /\ Returned("_score_summary")
    /\ Cardinality(UnitJobTokens) = 5
    /\ Cardinality(SummaryTokens \cap UnitJobTokens) = 1
    /\ unit_output.v.score = Num(60)

\* C25: in score_skills_direct_match a job skill that shares no character
\* with any resume skill is classified as missing, for every resume, also
\* one whose skills list has an empty or whitespace-only entry.
C25_UnrelatedSkillIsMissing ==
    Returned("score_skills_direct_match") =>
        \A j \in UnitJobSkills :
            (\A r \in UnitResumeSkills : CharsOf(j) \cap CharsOf(r) = {}) =>
                /\ j \in Range(unit_output.v.missing)
                /\ j \notin Range(unit_output.v.matched)

\* the education entries of a resume (none when missing or None)
EducationOf(resume) ==
    IF resume.education.tag = "list" THEN resume.education.items ELSE << >>

\* among resumes with education entries, a higher highest level never scores
\* lower under the same requirement
HigherLevelNeverLower ==
    (Returned("_score_education") /\ UnitEducation # << >>) =>
        \A other \in ScorerResumes :
            (/\ EducationOf(other) # << >>
             /\ highest_level(EducationOf(other)) >= highest_level(UnitEducation)) =>
                RGe(score_education(other, unit_input.job_requirements).v.score,
                    unit_output.v.score)

\* C26: for a fixed education requirement _score_education is monotone in
\* the candidate's education data: a resume with at least one education entry
\* never scores lower than a resume with none, and a higher highest level
\* never scores lower.
C26_EducationMonotone ==
    /\ HigherLevelNeverLower
    /\ (Returned("_score_education") /\ UnitEducation # << >>) =>
          RGe(unit_output.v.score,
              score_education(EmptyResume, unit_input.job_requirements).v.score)

\* the requirements a call is scored against: the explicit min_experience
\* when not None and the explicit education_requirement when non-empty, in
\* place of what the job text states
EffectiveRequirements ==
    LET inferred == parse_job_description_simple(unit_input.job_description)
    IN  [min_experience |->
             IF unit_input.min_experience = None THEN inferred.min_experience
             ELSE unit_input.min_experience.n,
         education_requirement |->
             IF unit_input.education_requirement \in { None, StrV("") }
             THEN inferred.education_requirement
             ELSE unit_input.education_requirement]

\* C27: the MatchResult does not depend on required_skills and
\* preferred_skills: whatever their values, the result is the one fixed by
\* the other four arguments, the weights and the hash seed, so two calls that
\* differ only in those two arguments agree; min_experience (when not None) and
\* education_requirement (when non-empty) replace the inferred values in the
\* experience and education scoring.
C27_SkillArgumentsIgnored ==
    Returned("calculate_match_score") =>
        /\ unit_output.v =
              calculate_match_score(unit_input.parsed_resume,
                                    unit_input.job_description,
                                    unit_input.min_experience,
                                    unit_input.education_requirement,
                                    weights, hash_seed)
        /\ unit_output.v.debug_info # None =>
              LET ex == score_experience(unit_input.parsed_resume, EffectiveRequirements)
                  ed == score_education(unit_input.parsed_resume, EffectiveRequirements)
              IN  /\ unit_output.v.experience_score = Round2(ex.v.score)
                  /\ unit_output.v.experience_gap = ex.v.gap
                  /\ unit_output.v.education_score = Round2(ed.v.score)

\* a call with required and preferred skills, an explicit minimum of 5 years
\* against the 3 the job text states, and an explicit "Master": the candidate
\* with 3 years has a gap of 2
C27_Witness ==
    /\ Returned("calculate_match_score")
    /\ unit_input.required_skills # None
    /\ unit_input.preferred_skills # None
    /\ unit_input.min_experience = NumV(MaxYears + 2)
    /\ unit_input.education_requirement = StrV("Master")
    /\ parse_job_description_simple(unit_input.job_description).min_experience = 3
    /\ unit_input.parsed_resume = BaselineResume
    /\ unit_output.v.experience_gap = 2
    /\ unit_output.v.education_score = Num(60)

\* the numbers of all the "N years" requirements the patterns find in a text
YearsStated(text) ==
    LET words == Split(Lower(text))
    IN  { StrToInt(words[i]) :
            i \in { k \in 1..Len(words) : \/ ExpPattern1(words, k)
                                          \/ ExpPattern2(words, k)
                                          \/ ExpPattern3(words, k) } }

\* the hierarchy levels of the education keywords occurring in a text
LevelsStated(text) ==
    { education_hierarchy(education_levels[k]) :
        k \in { n \in 1..Len(education_levels) :
                  IsSubstr(education_levels[n], Lower(text)) } }

\* the education requirement is a keyword of the highest level occurring in
\* the text, and None when no keyword occurs
HighestEducationInferred ==
    Returned("_parse_job_description_simple") =>
        LET requirement == unit_output.v.education_requirement
        IN  IF LevelsStated(unit_input) = {} THEN requirement = None
            ELSE /\ requirement # None
                 /\ IsSubstr(requirement.s, Lower(unit_input))
                 /\ \A l \in LevelsStated(unit_input) :
                        l <= education_hierarchy(requirement.s)

\* C20: _parse_job_description_simple infers min_experience as the largest N
\* among all the "N years" requirements of the text (0 when there is none),
\* and the education requirement as a keyword of the highest level occurring.
C20_ParseTakesMaximum ==
    /\ HighestEducationInferred
    /\ Returned("_parse_job_description_simple") =>
         /\ \A n \in YearsStated(unit_input) : n <= unit_output.v.min_experience
         /\ unit_output.v.min_experience \in YearsStated(unit_input) \cup {0}

\* the tokens of the input that are longer than 2 characters, alphabetic and
\* outside the given word set, in order
KeptOutside(words) ==
    SelectSeq(unit_input,
              LAMBDA tok : Len(tok) > 2 /\ IsAlpha(tok) /\ tok \notin words)

\* C21: _clean_tokens returns exactly the input tokens, in order, that are
\* longer than 2 characters, alphabetic and outside the stop-word list unioned
\* with the curated terms (ignore_words); no ignore-set word survives.
C21_CleanDropsIgnoreWords ==
    Returned("_clean_tokens") =>
        /\ unit_output.v = KeptOutside(ignore_words)
        /\ \A i \in DOMAIN unit_output.v : unit_output.v[i] \notin ignore_words

\* a returned skill is well formed: lowercase; as a single word longer than
\* one character, not numeric and outside the ignore-set; as a phrase at most
\* 3 words and 50 characters with no ignore-set word
WellFormedSkill(e) ==
    LET words == Split(e)
    IN  /\ e = Lower(e)
        /\ Len(words) <= 1 =>
              Len(e) > 1 /\ ~IsDigit(e) /\ e \notin ignore_words
        /\ Len(words) > 1 =>
              /\ Len(words) <= 3
              /\ Len(e) <= 50
              /\ Range(words) \cap ignore_words = {}

\* C22: every element of the list extract_skills_from_job_description
\* returns is lowercase and occurs once; no single-word element is one
\* character long, purely numeric or in the ignore-set; a multi-word element
\* has at most 3 words, at most 50 characters and no ignore-set word.
C22_JobSkillsWellFormed ==
    Returned("extract_skills_from_job_description") =>
        LET skills == unit_output.v
        IN  /\ \A i, j \in DOMAIN skills : i # j => skills[i] # skills[j]
            /\ \A i \in DOMAIN skills : WellFormedSkill(skills[i])

\* C23: after any sequence of add_resume, add_job_description and
\* add_analysis calls, every row of analyses has a resume_id that is the id
\* of a resumes row and a jd_id that is the id of a job_descriptions row.
C23_ForeignKeysHold ==
    \A i \in DOMAIN analyses :
        /\ analyses[i].resume_id \in DOMAIN resumes
        /\ analyses[i].jd_id \in DOMAIN job_descriptions

\* the band of a score: << quality description, recommendation >>
Band(score) ==
    IF RGe(score, Num(85)) THEN << "Excellent Match", "STRONG HIRE" >>
    ELSE IF RGe(score, Num(70)) THEN << "Good Match", "HIRE" >>
    ELSE IF RGe(score, Num(55)) THEN << "Moderate Match", "CONDITIONAL HIRE" >>
    ELSE IF RGe(score, Num(40)) THEN << "Weak Match", "WEAK CANDIDATE" >>
    ELSE << "Poor Match", "DO NOT HIRE" >>

\* the recommendation is the one of the score's band
RecommendationOfBand ==
    Returned("_get_hiring_recommendation") =>
        HasPrefix(unit_output.v, Band(unit_input)[2] \o " - ")

\* C28: for every overall score in [0, 100] with up to two decimals the
\* quality level and the hiring recommendation are those of the same band:
\* >= 85 Excellent Match / STRONG HIRE, >= 70 Good Match / HIRE, >= 55
\* Moderate Match / CONDITIONAL HIRE, >= 40 Weak Match / WEAK CANDIDATE,
\* below 40 Poor Match / DO NOT HIRE.
C28_BandsAgree ==
    /\ RecommendationOfBand
    /\ Returned("_get_quality_level") => unit_output.v[3] = Band(unit_input)[1]

----------------------------------------------------------------------------
(* Properties of _run_full_analysis.                                       *)

\* C29: when parse_resume fails (it returns its error record), the failure
\* is surfaced: the pipeline does not return a MatchResult with a non-zero
\* overall_score together with a reports dict without an 'error' key.
C29_ParseFailureSurfaced ==
    (run_pc = "returned" /\ ~resume_path.parsable) =>
        ~(/\ run_match_result.overall_score # Num(0)
          /\ "error" \notin reports.keys)

\* the steps in their order
RunSteps == << "parse", "score", "visualise", "report" >>

\* C30: every execution runs its steps in the order parse, score, visualise,
\* report, attempts to delete the temporary file after the last executed
\* step and before returning, whichever step fails, and returns four
\* non-None values.
C30_OrderedCleanupAndReturn ==
    /\ run_pc # "raised"
    /\ \A i \in DOMAIN run_log :
          IF run_log[i] = "unlink" THEN i = Len(run_log)
          ELSE i <= Len(RunSteps) /\ run_log[i] = RunSteps[i]
    /\ run_pc = "returned" =>
         /\ run_log # << >>
         /\ run_log[Len(run_log)] = "unlink"
         /\ \A i \in 1..(Len(run_log) - 1) : run_log[i] = RunSteps[i]
         /\ run_parsed_resume # None /\ run_match_result # None
         /\ dashboard # None /\ reports # None

\* the variant of ui_app.py, whose handler encloses all four steps, does so
C30_UiAppVariant == variant = "ui_app" => C30_OrderedCleanupAndReturn

\* ui_app.py: the scorer could not be constructed, the handler supplied the
\* defaults, the file's deletion was attempted and the four values returned
C30_UiAppWitness ==
    /\ variant = "ui_app"
    /\ run_pc = "returned"
    /\ run_log = << "parse", "score", "unlink" >>
    /\ run_match_result = DummyMatchResult
    /\ reports = DictV({ "error" })

====
